---------------------------- MODULE Spec2Model ----------------------------
(***************************************************************************)
(* Model of the interpretation-and-resolution core of the air-quality      *)
(* multi-agent service: the Pattern Parser (QueryParser), the hybrid       *)
(* orchestrator (HybridQueryParser) with its comparison recorder, the      *)
(* location resolver and the two query-resolution workflows                *)
(* (PMQueryWorkflow, PMForecastWorkflow).                                  *)
(*                                                                         *)
(* Text is modelled as a sequence of one-character strings, so that the    *)
(* regular expressions of the source are evaluated character by character. *)
(* Confidences are integers in hundredths (0.95 is 95).                    *)
(* An Optional value is a sequence: <<>> is None, <<x>> is x.              *)
(***************************************************************************)
EXTENDS Integers, Sequences, FiniteSets, TLC

(***************************************************************************)
(* Text helpers (Python str methods used by the source).                   *)
(***************************************************************************)
LowerLetters == <<"a","b","c","d","e","f","g","h","i","j","k","l","m",
                  "n","o","p","q","r","s","t","u","v","w","x","y","z">>
UpperLetters == <<"A","B","C","D","E","F","G","H","I","J","K","L","M",
                  "N","O","P","Q","R","S","T","U","V","W","X","Y","Z">>
Digits == {"0","1","2","3","4","5","6","7","8","9"}
Letters == {LowerLetters[k] : k \in 1..26} \cup {UpperLetters[k] : k \in 1..26}
\* \w, \s, \d and . of Python's re module, over the characters the model uses
WordChars == Letters \cup Digits \cup {"_"}
SpaceChars == {" "}
WordOrSpace == WordChars \cup SpaceChars
AnyChar == WordOrSpace \cup {".", "?", "!", "'", ",", "-", "{", "}", ":"}

\* str.lower() on one character
LowerChar(c) ==
    IF \E k \in 1..26 : UpperLetters[k] = c
    THEN LowerLetters[CHOOSE k \in 1..26 : UpperLetters[k] = c]
    ELSE c

\* str.lower()
Lower(s) == [k \in 1..Len(s) |-> LowerChar(s[k])]

\* str.strip(): leading and trailing whitespace removed
RECURSIVE LStrip(_)
LStrip(s) == IF s # <<>> /\ Head(s) \in SpaceChars THEN LStrip(Tail(s)) ELSE s
RECURSIVE RStrip(_)
RStrip(s) ==
    IF s # <<>> /\ s[Len(s)] \in SpaceChars THEN RStrip(SubSeq(s, 1, Len(s) - 1)) ELSE s
Strip(s) == RStrip(LStrip(s))

\* s[i:] starts with t
StartsWithAt(s, i, t) ==
    /\ i + Len(t) - 1 <= Len(s)
    /\ \A k \in 1..Len(t) : s[i + k - 1] = t[k]

\* t in s (substring test)
Contains(s, t) == \E i \in 1..(Len(s) + 1) : StartsWithAt(s, i, t)

(***************************************************************************)
(* Regular expressions: Python's backtracking matcher (re.search).  A      *)
(* pattern is a tree; MatchK matches a continuation (a stack of pattern    *)
(* nodes) at position i and returns the first match in Python's priority   *)
(* order: alternatives left to right, greedy quantifiers longest first,    *)
(* lazy quantifiers shortest first.                                        *)
(***************************************************************************)
Lit(s) == [t |-> "lit", s |-> s]                       \* literal text
Cat(xs) == [t |-> "cat", xs |-> xs]                    \* concatenation
Alt(xs) == [t |-> "alt", xs |-> xs]                    \* a|b|c
Opt(x) == [t |-> "opt", x |-> x]                       \* x?
Plus(c) == [t |-> "rep", c |-> c, min |-> 1, greedy |-> TRUE]      \* [c]+
Star(c) == [t |-> "rep", c |-> c, min |-> 0, greedy |-> TRUE]      \* [c]*
PlusLazy(c) == [t |-> "rep", c |-> c, min |-> 1, greedy |-> FALSE] \* [c]+?
Grp(k, x) == [t |-> "grp", k |-> k, x |-> x]           \* capture group k
Eos == [t |-> "eos"]                                   \* $

MaxGroups == 4
NoGroups == [k \in 1..MaxGroups |-> <<>>]
NoMatch == [ok |-> FALSE]

\* number of consecutive characters of class c starting at s[i]
RECURSIVE Run(_, _, _)
Run(s, i, c) == IF i <= Len(s) /\ s[i] \in c THEN 1 + Run(s, i + 1, c) ELSE 0

RECURSIVE MatchK(_, _, _, _)
RECURSIVE TryAlt(_, _, _, _, _, _)
RECURSIVE TryRep(_, _, _, _, _, _, _, _)

MatchK(ks, s, i, caps) ==
    IF Len(ks) = 0 THEN [ok |-> TRUE, pos |-> i, caps |-> caps]
    ELSE LET h == Head(ks)
             rest == Tail(ks)
         IN CASE h.t = "lit" ->
                   IF StartsWithAt(s, i, h.s) THEN MatchK(rest, s, i + Len(h.s), caps)
                   ELSE NoMatch
              [] h.t = "cat" -> MatchK(h.xs \o rest, s, i, caps)
              [] h.t = "alt" -> TryAlt(h.xs, 1, rest, s, i, caps)
              [] h.t = "opt" ->
                   LET r == MatchK(<<h.x>> \o rest, s, i, caps)
                   IN IF r.ok THEN r ELSE MatchK(rest, s, i, caps)
              [] h.t = "rep" ->
                   LET n == Run(s, i, h.c)
                   IN IF n < h.min THEN NoMatch
                      ELSE TryRep(h.greedy, IF h.greedy THEN n ELSE h.min,
                                  h.min, n, rest, s, i, caps)
              [] h.t = "grp" ->
                   MatchK(<<h.x, [t |-> "close", k |-> h.k, start |-> i]>> \o rest,
                          s, i, caps)
              [] h.t = "close" ->
                   MatchK(rest, s, i, [caps EXCEPT ![h.k] = <<SubSeq(s, h.start, i - 1)>>])
              [] h.t = "eos" ->
                   IF i = Len(s) + 1 THEN MatchK(rest, s, i, caps) ELSE NoMatch

TryAlt(xs, k, rest, s, i, caps) ==
    IF k > Len(xs) THEN NoMatch
    ELSE LET r == MatchK(<<xs[k]>> \o rest, s, i, caps)
         IN IF r.ok THEN r ELSE TryAlt(xs, k + 1, rest, s, i, caps)

TryRep(greedy, k, lo, hi, rest, s, i, caps) ==
    IF k < lo \/ k > hi THEN NoMatch
    ELSE LET r == MatchK(rest, s, i + k, caps)
         IN IF r.ok THEN r
            ELSE TryRep(greedy, IF greedy THEN k - 1 ELSE k + 1, lo, hi, rest, s, i, caps)

\* re.search(pattern, s): the leftmost match; groups are Optionals (<<>> is None)
RECURSIVE SearchFrom(_, _, _)
SearchFrom(re, s, i) ==
    IF i > Len(s) + 1 THEN NoMatch
    ELSE LET r == MatchK(<<re>>, s, i, NoGroups)
         IN IF r.ok THEN [ok |-> TRUE, start |-> i, pos |-> r.pos, caps |-> r.caps]
            ELSE SearchFrom(re, s, i + 1)
ReSearch(re, s) == SearchFrom(re, s, 1)

(***************************************************************************)
(* Pattern Parser: src/agents/query_parser.py                              *)
(***************************************************************************)
\* an entity value that is Python's None (a text is a sequence of characters)
NoneValue == <<"<None>">>

\* QueryParser.metric_synonyms, in declaration order
metric_synonyms ==
    << <<<<"p","m">>, <<"p","m","2","5">>>>, <<<<"p","m","2",".","5">>, <<"p","m","2","5">>>>, <<<<"p","m","2","5">>, <<"p","m","2","5">>>>,
       <<<<"a","q","i">>, <<"a","q","i">>>>, <<<<"a","i","r"," ","q","u","a","l","i","t","y">>, <<"a","q","i">>>>,
       <<<<"a","i","r"," ","q","u","a","l","i","t","y"," ","i","n","d","e","x">>, <<"a","q","i">>>>,
       <<<<"n","o","2">>, <<"n","o","2">>>>, <<<<"n","i","t","r","o","g","e","n">>, <<"n","o","2">>>>,
       <<<<"s","o","2">>, <<"s","o","2">>>>, <<<<"s","u","l","f","u","r">>, <<"s","o","2">>>>,
       <<<<"o","z","o","n","e">>, <<"o","3">>>>, <<<<"o","3">>, <<"o","3">>>> >>

IsMetricSynonym(s) == \E k \in 1..Len(metric_synonyms) : metric_synonyms[k][1] = s

\* QueryParser._normalize_metric
normalize_metric(metric_str) ==
    LET metric_lower == Strip(Lower(metric_str))
    IN IF IsMetricSynonym(metric_lower)
       THEN metric_synonyms[CHOOSE k \in 1..Len(metric_synonyms) :
                                metric_synonyms[k][1] = metric_lower][2]
       ELSE metric_lower

\* unit_map of QueryParser._normalize_time_unit
unit_map ==
    << <<<<"h","o","u","r">>, <<"h","o","u","r","s">>>>, <<<<"h","o","u","r","s">>, <<"h","o","u","r","s">>>>, <<<<"h","r">>, <<"h","o","u","r","s">>>>,
       <<<<"h","r","s">>, <<"h","o","u","r","s">>>>,
       <<<<"d","a","y">>, <<"d","a","y","s">>>>, <<<<"d","a","y","s">>, <<"d","a","y","s">>>>, <<<<"d">>, <<"d","a","y","s">>>>,
       <<<<"w","e","e","k">>, <<"w","e","e","k","s">>>>, <<<<"w","e","e","k","s">>, <<"w","e","e","k","s">>>>, <<<<"w","k">>, <<"w","e","e","k","s">>>>,
       <<<<"w","k","s">>, <<"w","e","e","k","s">>>>,
       <<<<"m","o","n","t","h">>, <<"m","o","n","t","h","s">>>>, <<<<"m","o","n","t","h","s">>, <<"m","o","n","t","h","s">>>>, <<<<"m","o">>, <<"m","o","n","t","h","s">>>>,
       <<<<"y","e","a","r">>, <<"y","e","a","r","s">>>>, <<<<"y","e","a","r","s">>, <<"y","e","a","r","s">>>>, <<<<"y","r">>, <<"y","e","a","r","s">>>>,
       <<<<"y","r","s">>, <<"y","e","a","r","s">>>> >>

\* QueryParser._normalize_time_unit
normalize_time_unit(unit) ==
    LET unit_lower == Strip(Lower(unit))
    IN IF \E k \in 1..Len(unit_map) : unit_map[k][1] = unit_lower
       THEN unit_map[CHOOSE k \in 1..Len(unit_map) : unit_map[k][1] = unit_lower][2]
       ELSE unit_lower

\* QueryParser._extract_metric_from_query: the first synonym, in declaration
\* order, that occurs in the text; <<>> is None
RECURSIVE FirstSynonymIn(_, _)
FirstSynonymIn(q, k) ==
    IF k > Len(metric_synonyms) THEN <<>>
    ELSE IF Contains(q, metric_synonyms[k][1]) THEN <<metric_synonyms[k][2]>>
    ELSE FirstSynonymIn(q, k + 1)
extract_metric_from_query(query) == FirstSynonymIn(Lower(query), 1)

\* int() of a string of decimal digits
DigitValue(c) ==
    CASE c = "0" -> 0 [] c = "1" -> 1 [] c = "2" -> 2 [] c = "3" -> 3 [] c = "4" -> 4
      [] c = "5" -> 5 [] c = "6" -> 6 [] c = "7" -> 7 [] c = "8" -> 8 [] c = "9" -> 9
RECURSIVE ParseInt(_)
ParseInt(s) ==
    IF s = <<>> THEN 0 ELSE 10 * ParseInt(SubSeq(s, 1, Len(s) - 1)) + DigitValue(s[Len(s)])

\* the sub-patterns the rule table repeats
WordGroup(k) == Grp(k, Plus(WordChars))              \* (\w+)
LazyWords(k) == Grp(k, PlusLazy(WordOrSpace))        \* ([\w\s]+?)
GreedyWords(k) == Grp(k, Plus(WordOrSpace))          \* ([\w\s]+)
DigitGroup(k) == Grp(k, Plus(Digits))                \* (\d+)
LastPast == Alt(<<Lit(<<"l","a","s","t">>), Lit(<<"p","a","s","t">>)>>)     \* (?:last|past)

\* QueryParser._compile_patterns: the ordered rule table.  Each rule holds
\* its intent, its expression and the number of groups of the expression
\* (the length of match.groups()).
patterns ==
    << \* current_reading
       [intent |-> "current_reading", ngroups |-> 2,
        re |-> Cat(<<Alt(<<Cat(<<Lit(<<"w","h","a","t">>), Alt(<<Lit(<<"'","s">>), Lit(<<" ","i","s">>)>>)>>),
                           Lit(<<"s","h","o","w"," ","m","e">>), Lit(<<"t","e","l","l"," ","m","e">>)>>),
                     Lit(<<" ">>), Opt(Lit(<<"t","h","e"," ">>)),
                     Opt(Alt(<<Lit(<<"c","u","r","r","e","n","t"," ">>), Lit(<<"l","a","t","e","s","t"," ">>), Lit(<<"p","r","e","s","e","n","t"," ">>)>>)),
                     WordGroup(1),
                     Opt(Alt(<<Lit(<<" ","l","e","v","e","l">>), Lit(<<" ","r","e","a","d","i","n","g">>)>>)),
                     Lit(<<" ">>), Alt(<<Lit(<<"i","n">>), Lit(<<"a","t">>), Lit(<<"f","o","r">>)>>), Lit(<<" ">>),
                     LazyWords(2), Alt(<<Lit(<<"?">>), Eos>>)>>)],
       [intent |-> "current_reading", ngroups |-> 2,
        re |-> Cat(<<WordGroup(1), Lit(<<" ","i","n"," ">>), LazyWords(2), Alt(<<Lit(<<"?">>), Eos>>)>>)],
       [intent |-> "current_reading", ngroups |-> 2,
        re |-> Cat(<<LazyWords(1), Lit(<<" ">>), WordGroup(2), Lit(<<" ","l","e","v","e","l">>)>>)],
       \* trend
       [intent |-> "trend", ngroups |-> 4,
        re |-> Cat(<<Opt(Alt(<<Lit(<<"s","h","o","w"," ">>), Lit(<<"d","i","s","p","l","a","y"," ">>), Lit(<<"g","e","t"," ">>)>>)),
                     WordGroup(1), Lit(<<" ">>),
                     Alt(<<Lit(<<"t","r","e","n","d">>), Lit(<<"h","i","s","t","o","r","y">>), Lit(<<"p","a","t","t","e","r","n">>)>>), Lit(<<" ">>),
                     Opt(Alt(<<Lit(<<"f","o","r"," ">>), Lit(<<"i","n"," ">>)>>)),
                     LazyWords(2), Lit(<<" ">>),
                     Opt(Alt(<<Lit(<<"f","o","r"," ">>), Lit(<<"o","v","e","r"," ">>)>>)), Opt(Lit(<<"t","h","e"," ">>)),
                     LastPast, Lit(<<" ">>), DigitGroup(3), Lit(<<" ">>), WordGroup(4)>>)],
       [intent |-> "trend", ngroups |-> 4,
        re |-> Cat(<<LazyWords(1), Lit(<<" ">>), WordGroup(2), Lit(<<" ">>),
                     Opt(Alt(<<Lit(<<"f","o","r"," ">>), Lit(<<"o","v","e","r"," ">>)>>)), Opt(Lit(<<"t","h","e"," ">>)),
                     LastPast, Lit(<<" ">>), DigitGroup(3), Lit(<<" ">>), WordGroup(4)>>)],
       [intent |-> "trend", ngroups |-> 4,
        re |-> Cat(<<Lit(<<"h","o","w"," ">>), Alt(<<Lit(<<"h","a","s"," ">>), Lit(<<"d","i","d"," ">>)>>),
                     WordGroup(1), Lit(<<" ">>),
                     Alt(<<Cat(<<Lit(<<"c","h","a","n","g","e">>), Opt(Lit(<<"d">>))>>), Lit(<<"v","a","r","i","e","d">>)>>),
                     Lit(<<" ","i","n"," ">>), LazyWords(2), Lit(<<" ">>),
                     Opt(Alt(<<Lit(<<"o","v","e","r"," ">>), Lit(<<"i","n"," ">>)>>)), Opt(Lit(<<"t","h","e"," ">>)),
                     LastPast, Lit(<<" ">>), DigitGroup(3), Lit(<<" ">>), WordGroup(4)>>)],
       \* comparison
       [intent |-> "comparison", ngroups |-> 3,
        re |-> Cat(<<Lit(<<"c","o","m","p","a","r","e"," ">>), WordGroup(1), Lit(<<" ">>),
                     Alt(<<Lit(<<"b","e","t","w","e","e","n"," ">>), Lit(<<"i","n"," ">>), Lit(<<"a","c","r","o","s","s"," ">>)>>),
                     LazyWords(2), Lit(<<" ">>),
                     Alt(<<Lit(<<"a","n","d">>), Lit(<<"w","i","t","h">>), Lit(<<"v","s">>)>>), Lit(<<" ">>),
                     GreedyWords(3)>>)],
       [intent |-> "comparison", ngroups |-> 3,
        re |-> Cat(<<LazyWords(1), Lit(<<" ","v","s">>), Opt(Lit(<<".">>)), Lit(<<" ">>),
                     LazyWords(2), Opt(Lit(<<" ","f","o","r">>)), Lit(<<" ">>), WordGroup(3)>>)],
       [intent |-> "comparison", ngroups |-> 2,
        re |-> Cat(<<Lit(<<"w","h","i","c","h"," ">>), Alt(<<Lit(<<"i","s"," ">>), Lit(<<"h","a","s"," ">>)>>),
                     Alt(<<Lit(<<"b","e","t","t","e","r">>), Lit(<<"w","o","r","s","e">>), Lit(<<"h","i","g","h","e","r">>), Lit(<<"l","o","w","e","r">>)>>),
                     Opt(Cat(<<Lit(<<" ">>), Plus(WordChars)>>)), Lit(<<" ">>),
                     LazyWords(1), Lit(<<" ","o","r"," ">>), GreedyWords(2)>>)],
       \* forecast
       [intent |-> "forecast", ngroups |-> 4,
        re |-> Cat(<<Alt(<<Lit(<<"w","h","a","t"," ","w","i","l","l">>), Lit(<<"p","r","e","d","i","c","t">>), Lit(<<"f","o","r","e","c","a","s","t">>),
                           Lit(<<"e","x","p","e","c","t","e","d">>)>>),
                     Lit(<<" ">>), WordGroup(1), Lit(<<" ">>),
                     Opt(Alt(<<Lit(<<"b","e"," ">>), Lit(<<"i","n"," ">>), Lit(<<"f","o","r"," ">>)>>)),
                     LazyWords(2), Lit(<<" ">>),
                     Alt(<<Lit(<<"t","o","m","o","r","r","o","w">>), Lit(<<"t","o","d","a","y">>),
                           Cat(<<Lit(<<"n","e","x","t"," ">>), DigitGroup(3), Lit(<<" ">>), WordGroup(4)>>)>>)>>)],
       [intent |-> "forecast", ngroups |-> 4,
        re |-> Cat(<<LazyWords(1), Lit(<<" ">>), WordGroup(2), Lit(<<" ","f","o","r","e","c","a","s","t">>),
                     Opt(Lit(<<" ","f","o","r">>)), Lit(<<" ">>),
                     Opt(Alt(<<Lit(<<"n","e","x","t"," ">>), Lit(<<"c","o","m","i","n","g"," ">>)>>)),
                     Opt(DigitGroup(3)), Opt(Lit(<<" ">>)), Opt(WordGroup(4))>>)],
       [intent |-> "forecast", ngroups |-> 2,
        re |-> Cat(<<Lit(<<"w","i","l","l"," ">>), WordGroup(1), Lit(<<" ">>),
                     Alt(<<Lit(<<"i","n","c","r","e","a","s","e">>), Lit(<<"d","e","c","r","e","a","s","e">>), Lit(<<"i","m","p","r","o","v","e">>),
                           Lit(<<"w","o","r","s","e","n">>)>>),
                     Lit(<<" ","i","n"," ">>), GreedyWords(2)>>)],
       \* hotspot
       [intent |-> "hotspot", ngroups |-> 1,
        re |-> Cat(<<Opt(Alt(<<Lit(<<"s","h","o","w"," ">>), Lit(<<"f","i","n","d"," ">>), Lit(<<"g","e","t"," ">>)>>)),
                     Opt(Alt(<<Lit(<<"p","o","l","l","u","t","i","o","n"," ">>), Lit(<<"a","i","r"," ","q","u","a","l","i","t","y"," ">>)>>)),
                     Lit(<<"h","o","t","s","p","o","t">>), Opt(Lit(<<"s">>)), Lit(<<" ">>),
                     Opt(Alt(<<Lit(<<"i","n"," ">>), Lit(<<"f","o","r"," ">>), Lit(<<"a","r","o","u","n","d"," ">>)>>)),
                     Opt(GreedyWords(1))>>)],
       [intent |-> "hotspot", ngroups |-> 1,
        re |-> Cat(<<Alt(<<Lit(<<"m","o","s","t"," ">>), Lit(<<"l","e","a","s","t"," ">>)>>), Lit(<<"p","o","l","l","u","t","e","d"," ">>),
                     Alt(<<Cat(<<Lit(<<"a","r","e","a">>), Opt(Lit(<<"s">>))>>),
                           Cat(<<Lit(<<"l","o","c","a","t","i","o","n">>), Opt(Lit(<<"s">>))>>),
                           Cat(<<Lit(<<"p","l","a","c","e">>), Opt(Lit(<<"s">>))>>)>>),
                     Lit(<<" ">>), Opt(Alt(<<Lit(<<"i","n"," ">>), Lit(<<"a","r","o","u","n","d"," ">>)>>)),
                     Opt(GreedyWords(1))>>)],
       [intent |-> "hotspot", ngroups |-> 1,
        re |-> Cat(<<Lit(<<"w","h","e","r","e"," ">>), Alt(<<Lit(<<"i","s"," ">>), Lit(<<"a","r","e"," ">>)>>),
                     Opt(Lit(<<"t","h","e"," ">>)), Alt(<<Lit(<<"w","o","r","s","t">>), Lit(<<"b","e","s","t">>)>>),
                     Lit(<<" ","a","i","r"," ","q","u","a","l","i","t","y"," ">>),
                     Opt(Alt(<<Lit(<<"i","n"," ">>), Lit(<<"a","r","o","u","n","d"," ">>)>>)),
                     Opt(GreedyWords(1))>>)],
       \* alert
       [intent |-> "alert", ngroups |-> 1,
        re |-> Cat(<<Opt(Alt(<<Lit(<<"i","s"," ">>), Lit(<<"a","r","e"," ">>)>>)), LazyWords(1), Lit(<<" ">>),
                     Alt(<<Lit(<<"s","a","f","e">>), Lit(<<"d","a","n","g","e","r","o","u","s">>), Lit(<<"h","a","z","a","r","d","o","u","s">>),
                           Lit(<<"u","n","h","e","a","l","t","h","y">>)>>)>>)],
       [intent |-> "alert", ngroups |-> 1,
        re |-> Cat(<<Lit(<<"s","h","o","u","l","d"," ","I"," ">>),
                     Alt(<<Lit(<<"g","o"," ","o","u","t">>), Lit(<<"e","x","e","r","c","i","s","e">>), Lit(<<"w","e","a","r"," ","m","a","s","k">>)>>),
                     Lit(<<" ","i","n"," ">>), GreedyWords(1)>>)],
       [intent |-> "alert", ngroups |-> 1,
        re |-> Cat(<<Lit(<<"h","e","a","l","t","h"," ">>),
                     Alt(<<Lit(<<"a","d","v","i","s","o","r","y">>), Lit(<<"a","l","e","r","t">>), Lit(<<"w","a","r","n","i","n","g">>)>>),
                     Lit(<<" ">>), Opt(Alt(<<Lit(<<"f","o","r"," ">>), Lit(<<"i","n"," ">>)>>)),
                     GreedyWords(1)>>)] >>

\* the empty dict {}
EmptyDict == [k \in {} |-> <<>>]

\* truth value of a group of match.groups(): neither None nor ''
GroupSet(caps, k) == caps[k] # <<>> /\ caps[k][1] # <<>>

\* the list comprehension of the comparison branch of _extract_entities
RECURSIVE ComparisonLocations(_, _, _)
ComparisonLocations(caps, i, n) ==
    IF i > n THEN <<>>
    ELSE (IF GroupSet(caps, i) THEN <<Strip(caps[i][1])>> ELSE <<>>)
         \o ComparisonLocations(caps, i + 1, n)

\* QueryParser._extract_entities(match, intent, expected_groups): the entities,
\* or raised when the code calls a str method on a group that is None
extract_entities(m, text, intent, ngroups) ==
    LET groups == m.caps
    IN CASE intent = "current_reading" ->
              IF ngroups >= 2
              THEN [raised |-> FALSE,
                    entities |-> [metric |-> normalize_metric(groups[1][1]),
                                  location |-> Strip(groups[2][1])]]
              ELSE [raised |-> FALSE, entities |-> EmptyDict]
         [] intent = "trend" ->
              IF ngroups >= 4
              THEN [raised |-> FALSE,
                    entities |->
                       [metric |-> normalize_metric(groups[1][1]),
                        location |-> IF ~IsMetricSynonym(Strip(groups[2][1]))
                                     THEN Strip(groups[2][1])
                                     ELSE Strip(groups[1][1]),
                        duration |-> ParseInt(groups[3][1]),
                        unit |-> normalize_time_unit(groups[4][1])]]
              ELSE [raised |-> FALSE, entities |-> EmptyDict]
         [] intent = "comparison" ->
              IF ngroups >= 2
              THEN [raised |-> FALSE,
                    entities |->
                       [locations |-> ComparisonLocations(groups, 1,
                                          IF ngroups < 3 THEN ngroups ELSE 3),
                        metric |-> IF extract_metric_from_query(text) # <<>>
                                      /\ extract_metric_from_query(text)[1] # <<>>
                                   THEN extract_metric_from_query(text)[1]
                                   ELSE <<"p","m","2","5">>]]
              ELSE [raised |-> FALSE, entities |-> EmptyDict]
         [] intent = "forecast" ->
              LET location == IF GroupSet(groups, 1) THEN Strip(groups[1][1]) ELSE NoneValue
              IN IF ngroups >= 3 /\ GroupSet(groups, 3)
                 THEN IF ngroups > 3 /\ groups[4] = <<>>
                      THEN [raised |-> TRUE, entities |-> EmptyDict]   \* None.lower()
                      ELSE [raised |-> FALSE,
                            entities |-> [metric |-> <<"p","m","2","5">>, location |-> location,
                                          duration |-> ParseInt(groups[3][1]),
                                          unit |-> IF ngroups > 3
                                                   THEN normalize_time_unit(groups[4][1])
                                                   ELSE <<"h","o","u","r","s">>]]
                 ELSE [raised |-> FALSE,
                       entities |-> [metric |-> <<"p","m","2","5">>, location |-> location,
                                     duration |-> 24, unit |-> <<"h","o","u","r","s">>]]
         [] intent \in {"hotspot", "alert"} ->
              [raised |-> FALSE,
               entities |-> [location |-> IF GroupSet(groups, 1) THEN Strip(groups[1][1])
                                          ELSE NoneValue,
                             metric |-> <<"p","m","2","5">>]]
         [] OTHER -> [raised |-> FALSE, entities |-> EmptyDict]

\* entities.get(key) is truthy: the key is present with a non-empty text
EntityTruthy(entities, key) ==
    key \in DOMAIN entities /\ entities[key] # NoneValue /\ entities[key] # <<>>

BaseConfidence == 80
\* _calculate_confidence with the boost given to every intent that has a location
calculate_confidence_boosting_location(intent, entities) ==
    IF EntityTruthy(entities, "location") /\ EntityTruthy(entities, "metric")
    THEN 95
    ELSE IF intent = "trend" /\ {"location", "duration", "unit"} \subseteq DOMAIN entities
    THEN 90
    ELSE IF intent = "comparison" /\ "locations" \in DOMAIN entities
            /\ Len(entities["locations"]) >= 2
    THEN 90
    ELSE BaseConfidence

\* QueryParser._calculate_confidence, in hundredths
calculate_confidence(intent, entities) ==
    IF intent = "current_reading" /\ EntityTruthy(entities, "location")
       /\ EntityTruthy(entities, "metric")
    THEN 95
    ELSE IF intent = "trend" /\ {"location", "duration", "unit"} \subseteq DOMAIN entities
    THEN 90
    ELSE IF intent = "comparison" /\ "locations" \in DOMAIN entities
            /\ Len(entities["locations"]) >= 2
    THEN 90
    ELSE BaseConfidence

\* the first rule of the table, in declaration order, that matches
RECURSIVE FirstRule(_, _)
FirstRule(text, k) ==
    IF k > Len(patterns) THEN [ok |-> FALSE]
    ELSE LET m == ReSearch(patterns[k].re, text)
         IN IF m.ok THEN [ok |-> TRUE, rule |-> k, m |-> m] ELSE FirstRule(text, k + 1)

\* QueryParser.parse with the normalised text in the unknown result
QueryParser_parse_normalised(query) ==
    LET query_lower == Strip(Lower(query))
        f == FirstRule(query_lower, 1)
    IN IF f.ok
       THEN LET intent == patterns[f.rule].intent
                e == extract_entities(f.m, query_lower, intent, patterns[f.rule].ngroups)
            IN IF e.raised
               THEN [raised |-> TRUE, intent |-> "<raised>", entities |-> EmptyDict,
                     confidence |-> 0, raw_query |-> query]
               ELSE [raised |-> FALSE, intent |-> intent, entities |-> e.entities,
                     confidence |-> calculate_confidence(intent, e.entities),
                     raw_query |-> query]
       ELSE [raised |-> FALSE, intent |-> "unknown", entities |-> [query |-> query_lower],
             confidence |-> 0, raw_query |-> query]

\* QueryParser.parse(query): a ParsedQuery, or raised when _extract_entities raises
QueryParser_parse(query) ==
    LET query_lower == Strip(Lower(query))
        f == FirstRule(query_lower, 1)
    IN IF f.ok
       THEN LET intent == patterns[f.rule].intent
                e == extract_entities(f.m, query_lower, intent, patterns[f.rule].ngroups)
            IN IF e.raised
               THEN [raised |-> TRUE, intent |-> "<raised>", entities |-> EmptyDict,
                     confidence |-> 0, raw_query |-> query]
               ELSE [raised |-> FALSE, intent |-> intent, entities |-> e.entities,
                     confidence |-> calculate_confidence(intent, e.entities),
                     raw_query |-> query]
       ELSE [raised |-> FALSE, intent |-> "unknown", entities |-> [query |-> query],
             confidence |-> 0, raw_query |-> query]

(***************************************************************************)
(* External-Model Parser: src/agents/instructlab_parser.py                 *)
(***************************************************************************)
\* ParsedQuery(intent, entities, confidence, raw_query)
ParsedQuery(intent, entities, confidence, raw_query) ==
    [raised |-> FALSE, intent |-> intent, entities |-> entities,
     confidence |-> confidence, raw_query |-> raw_query]

\* A JSON value that is not an object (a list, a string, a number, null) where
\* a dict is expected
NotADict == [not_a_mapping |-> <<>>]
IsDict(e) == "not_a_mapping" \notin DOMAIN e

\* dict.get(key, default)
Get(d, key, default) == IF key \in DOMAIN d THEN d[key] ELSE default

\* FineTunedParser._manual_parse(response)
manual_parse(response) ==
    LET r == Lower(response)
    IN IF Contains(r, <<"c","u","r","r","e","n","t">>) \/ Contains(r, <<"p","m">>)
       THEN [intent |-> "current_reading", entities |-> EmptyDict, confidence |-> 60]
       ELSE IF Contains(r, <<"t","r","e","n","d">>) \/ Contains(r, <<"h","i","s","t","o","r","y">>)
       THEN [intent |-> "trend", entities |-> EmptyDict, confidence |-> 60]
       ELSE IF Contains(r, <<"c","o","m","p","a","r","e">>) \/ Contains(r, <<"v","s">>)
       THEN [intent |-> "comparison", entities |-> EmptyDict, confidence |-> 60]
       ELSE [intent |-> "unknown", entities |-> EmptyDict, confidence |-> 50]

\* the except branch without the error message
FallbackResponseWithoutError(query, message) ==
    ParsedQuery("unknown", [query |-> query], 0, query)

\* the except branch of FineTunedParser.parse
FallbackResponse(query, message) ==
    ParsedQuery("unknown", [query |-> query, error |-> message], 0, query)

DefaultLlmConfidence == 70
\* FineTunedParser.parse(query) for one reply of the inference service:
\*   error       the transport fails or the status is not 200 (an exception)
\*   object      the body decodes to a JSON object, the payload
\*   not_object  the body decodes to JSON that is not an object (.get raises)
\*   text        the body holds no JSON: _manual_parse of the text
FineTunedParser_parse(query, reply) ==
    CASE reply.kind = "error" -> FallbackResponse(query, reply.message)
      [] reply.kind = "not_object" ->
           FallbackResponse(query, <<"'","l","i","s","t","'"," ","o","b","j","e","c","t"," ","h","a","s"," ","n","o"," ","a","t","t","r","i","b","u","t","e"," ","'","g","e","t","'">>)
      [] reply.kind = "object" ->
           ParsedQuery(Get(reply.payload, "intent", "unknown"),
                       Get(reply.payload, "entities", EmptyDict),
                       Get(reply.payload, "confidence", DefaultLlmConfidence),
                       query)
      [] reply.kind = "text" ->
           LET parsed == manual_parse(reply.text)
           IN ParsedQuery(parsed.intent, parsed.entities, parsed.confidence, query)

(***************************************************************************)
(* Hybrid orchestrator: src/agents/hybrid_parser.py                        *)
(***************************************************************************)
\* a > b + 0.1 on Python floats, for confidences in hundredths: exact except
\* where a = b + 0.1 and the double sum b + 0.1 rounds below a
FloatGreaterByTenth(a, b) ==
    \/ a > b + 10
    \/ a = b + 10 /\ b \in {24, 35, 36, 57, 58, 69, 70, 71, 82, 83}

\* abs(a - b) > 0.1 on Python floats, for confidences in hundredths: exact
\* except where the difference is 0.1 and the double difference rounds above it
FloatAbsDiffOverTenth(a, b) ==
    LET lo == IF a < b THEN a ELSE b
        hi == IF a < b THEN b ELSE a
    IN \/ hi - lo > 10
       \/ hi - lo = 10 /\ lo \in {18, 24, 29, 30, 35, 36, 41, 42, 43, 44, 45, 46,
                                  57, 58, 69, 70, 71, 82, 83}

\* a verdict that ignores the intents
is_llm_better_without_intent(regex_result, llm_result) ==
    \/ FloatGreaterByTenth(llm_result.confidence, regex_result.confidence)
    \/ /\ regex_result.confidence < 70
       /\ Cardinality(DOMAIN llm_result.entities)
            > Cardinality(DOMAIN regex_result.entities)

\* HybridQueryParser._is_llm_better
is_llm_better(regex_result, llm_result) ==
    IF FloatGreaterByTenth(llm_result.confidence, regex_result.confidence) THEN TRUE
    ELSE IF regex_result.confidence < 70
            /\ Cardinality(DOMAIN llm_result.entities)
                 > Cardinality(DOMAIN regex_result.entities)
    THEN TRUE
    ELSE IF regex_result.intent = "unknown" /\ llm_result.intent # "unknown" THEN TRUE
    ELSE FALSE

\* HybridQueryParser._analyze_differences; the caller makes sure that both
\* entities are dicts (.keys() raises otherwise)
analyze_differences(regex_result, llm_result) ==
    LET regex_entities == DOMAIN regex_result.entities
        llm_entities == DOMAIN llm_result.entities
        d1 == IF regex_result.intent # llm_result.intent
              THEN [intent |-> [regex |-> regex_result.intent, llm |-> llm_result.intent]]
              ELSE EmptyDict
        d2 == IF regex_entities # llm_entities
              THEN [entities |-> [regex_only |-> regex_entities \ llm_entities,
                                  llm_only |-> llm_entities \ regex_entities,
                                  common |-> regex_entities \cap llm_entities]]
              ELSE EmptyDict
        d3 == IF FloatAbsDiffOverTenth(regex_result.confidence, llm_result.confidence)
              THEN [confidence_diff |->
                      IF regex_result.confidence < llm_result.confidence
                      THEN llm_result.confidence - regex_result.confidence
                      ELSE regex_result.confidence - llm_result.confidence]
              ELSE EmptyDict
    IN d1 @@ d2 @@ d3

\* the comparison dict built by _log_comparison
ComparisonRecord(timestamp, query, regex_result, llm_result) ==
    [timestamp |-> timestamp,
     query |-> query,
     regex_result |-> [intent |-> regex_result.intent,
                       entities |-> regex_result.entities,
                       confidence |-> regex_result.confidence],
     llm_result |-> [intent |-> llm_result.intent,
                     entities |-> llm_result.entities,
                     confidence |-> llm_result.confidence],
     differences |-> analyze_differences(regex_result, llm_result),
     llm_better |-> is_llm_better(regex_result, llm_result)]

MaxLog == 100
\* a buffer that stops taking records once it is full
AppendBoundedKeepOldest(log, comparison) ==
    IF Len(log) >= MaxLog THEN log ELSE Append(log, comparison)
\* the tail of _log_comparison: append, then keep the last 100
AppendBounded(log, comparison) ==
    LET appended == Append(log, comparison)
    IN IF Len(appended) > MaxLog
       THEN SubSeq(appended, Len(appended) - MaxLog + 1, Len(appended))
       ELSE appended

\* a recorder that writes back a buffer holding the new record only, as a
\* call would that worked on a snapshot of the buffer taken before its await
log_comparison_from_snapshot(log, timestamp, query, regex_result, llm_result) ==
    IF ~IsDict(regex_result.entities) \/ ~IsDict(llm_result.entities)
    THEN [raised |-> TRUE, log |-> log]
    ELSE [raised |-> FALSE,
          log |-> AppendBounded(<<>>, ComparisonRecord(timestamp, query,
                                                       regex_result, llm_result))]

\* HybridQueryParser._log_comparison: the new comparison_log, or raised when
\* _analyze_differences calls .keys() on entities that are no dict
log_comparison(log, timestamp, query, regex_result, llm_result) ==
    IF ~IsDict(regex_result.entities) \/ ~IsDict(llm_result.entities)
    THEN [raised |-> TRUE, log |-> log]
    ELSE [raised |-> FALSE,
          log |-> AppendBounded(log, ComparisonRecord(timestamp, query,
                                                      regex_result, llm_result))]

ConfidenceThreshold == 85
\* a production-mode test that lets every matched rule through
UseRegexResultAnyMatch(regex_result) == regex_result.confidence >= BaseConfidence
\* the production-mode test of HybridQueryParser.parse
UseRegexResult(regex_result) == regex_result.confidence >= ConfidenceThreshold


(***************************************************************************)
(* More of Python's str and re, as the workflows use them.                 *)
(***************************************************************************)
\* first index >= i at which t occurs in s, 0 when there is none
RECURSIVE FindFrom(_, _, _)
FindFrom(s, t, i) ==
    IF i + Len(t) - 1 > Len(s) THEN 0
    ELSE IF StartsWithAt(s, i, t) THEN i
    ELSE FindFrom(s, t, i + 1)

\* s.split(sep)[-1]: what follows the last of the separators found left to right
RECURSIVE LastPart(_, _)
LastPart(s, sep) ==
    LET i == FindFrom(s, sep, 1)
    IN IF i = 0 THEN s ELSE LastPart(SubSeq(s, i + Len(sep), Len(s)), sep)

\* s.split(): the words between runs of whitespace
RECURSIVE SplitWords(_)
SplitWords(s) ==
    LET t == LStrip(s)
        n == Run(t, 1, AnyChar \ SpaceChars)
    IN IF t = <<>> THEN <<>>
       ELSE <<SubSeq(t, 1, n)>> \o SplitWords(SubSeq(t, n + 1, Len(t)))

\* sep.join(words)
RECURSIVE Join(_, _)
Join(words, sep) ==
    IF words = <<>> THEN <<>>
    ELSE IF Len(words) = 1 THEN words[1]
    ELSE words[1] \o sep \o Join(Tail(words), sep)

\* s[:n] and words[-n:]
Prefix(s, n) == SubSeq(s, 1, IF Len(s) < n THEN Len(s) ELSE n)
Suffix(s, n) == SubSeq(s, IF Len(s) < n THEN 1 ELSE Len(s) - n + 1, Len(s))

\* re.sub(pattern, '', s) for a pattern that ends in $: the one match is cut out
ReSubEnd(re, s) ==
    LET m == ReSearch(re, s)
    IN IF m.ok THEN SubSeq(s, 1, m.start - 1) \o SubSeq(s, m.pos, Len(s)) ELSE s

\* q.replace('?', '').replace('!', '').replace('.', '')
NotPunctuation(c) == c \notin {"?", "!", "."}
CleanQuery(query) == SelectSeq(Strip(Lower(query)), NotPunctuation)

Lits(words) == Alt([k \in 1..Len(words) |-> Lit(words[k])])
Spaces == Plus(SpaceChars)                                \* \s+
OptSpaces == Star(SpaceChars)                             \* \s*
Rest == Grp(1, Plus(AnyChar))                             \* (.+)
InAtFor == Opt(Lits(<<<<"i","n">>, <<"a","t">>, <<"f","o","r">>>>))            \* (?:in|at|for)?
InAtForOf == Opt(Lits(<<<<"i","n">>, <<"a","t">>, <<"f","o","r">>, <<"o","f">>>>))    \* (?:in|at|for|of)?
PmWords == Lits(<<<<"p","m","2",".","5">>, <<"p","m","2","5">>, <<"p","m">>, <<"a","q","i">>>>)      \* (?:pm2\.5|pm25|pm|aqi)
\* next \d+ days?  and  days?
NextDays == Cat(<<Lit(<<"n","e","x","t"," ">>), Plus(Digits), Lit(<<" ","d","a","y">>), Opt(Lit(<<"s">>))>>)
Days == Cat(<<Lit(<<"d","a","y">>), Opt(Lit(<<"s">>))>>)

\* the words that end the question-word test of method 3
QuestionWords == <<<<"w","h","a","t">>, <<"s","h","o","w">>, <<"t","e","l","l">>, <<"g","e","t">>, <<"f","i","n","d">>, <<"h","o","w">>>>
StartsLikeAQuestion(q) ==
    \E k \in 1..Len(QuestionWords) : Contains(Prefix(q, 20), QuestionWords[k])

InList(w, words) == \E k \in 1..Len(words) : words[k] = w
MetricWords == <<<<"p","m","2",".","5">>, <<"p","m","2","5">>, <<"p","m">>, <<"a","q","i">>, <<"a","i","r">>, <<"q","u","a","l","i","t","y">>>>

\* method 4 of both workflows: the words that are neither common words (nor
\* shorter than 3) nor metric words, joined; "" when none is left
FilterWords(q, common_words) ==
    LET IsSignificant(w) == ~InList(w, common_words) /\ Len(w) > 2
        IsLocationWord(w) == ~InList(w, MetricWords)
        filtered_words == SelectSeq(SplitWords(q), IsSignificant)
        location_words == SelectSeq(filtered_words, IsLocationWord)
    IN Join(location_words, <<" ">>)


(***************************************************************************)
(* _extract_location_from_query of the two workflows.  The result of a     *)
(* method is an Optional: <<>> when the method does not return.            *)
(***************************************************************************)
prepositions == <<<<" ","i","n"," ">>, <<" ","a","t"," ">>, <<" ","f","o","r"," ">>, <<" ","o","f"," ">>, <<" ","n","e","a","r"," ">>, <<" ","a","r","o","u","n","d"," ">>>>

\* PMQueryWorkflow, method 1: the text after a preposition
RECURSIVE PM_after_preposition(_, _)
PM_after_preposition(q, k) ==
    IF k > Len(prepositions) THEN <<>>
    ELSE LET location == Strip(LastPart(q, prepositions[k]))
         IN IF Contains(q, prepositions[k]) /\ Len(location) > 1 THEN <<location>>
            ELSE PM_after_preposition(q, k + 1)

pm_patterns ==
    << Cat(<<Lits(<<<<"p","m","2",".","5">>, <<"p","m","2","5">>, <<"p","m"," ","2",".","5">>, <<"p","m">>, <<"a","q","i">>, <<"a","i","r"," ","q","u","a","l","i","t","y">>>>),
             Spaces, InAtForOf, OptSpaces, Rest>>),
       Cat(<<Lits(<<<<"c","u","r","r","e","n","t">>, <<"l","a","t","e","s","t">>, <<"s","h","o","w">>, <<"w","h","a","t"," ","i","s">>, <<"w","h","a","t","'","s"," ","t","h","e">>>>),
             Spaces, PmWords, Spaces, InAtFor, OptSpaces, Rest>>),
       Cat(<<PmWords, Spaces,
             Opt(Lits(<<<<"l","e","v","e","l">>, <<"l","e","v","e","l","s">>, <<"r","e","a","d","i","n","g">>, <<"v","a","l","u","e">>>>)), OptSpaces,
             InAtFor, OptSpaces, Rest>>) >>

\* \s+(level|levels|reading|value|now|today|current)$
PM_trailing_words ==
    Cat(<<Spaces, Lits(<<<<"l","e","v","e","l">>, <<"l","e","v","e","l","s">>, <<"r","e","a","d","i","n","g">>, <<"v","a","l","u","e">>, <<"n","o","w">>,
                         <<"t","o","d","a","y">>, <<"c","u","r","r","e","n","t">>>>), Eos>>)

\* PMQueryWorkflow, method 2: the text after a metric keyword
RECURSIVE PM_by_pattern(_, _)
PM_by_pattern(q, k) ==
    IF k > Len(pm_patterns) THEN <<>>
    ELSE LET match == ReSearch(pm_patterns[k], q)
             location == ReSubEnd(PM_trailing_words, Strip(match.caps[1][1]))
         IN IF match.ok /\ Len(location) > 1 THEN <<location>>
            ELSE PM_by_pattern(q, k + 1)

PM_common_words ==
    <<<<"w","h","a","t">>, <<"i","s">>, <<"t","h","e">>, <<"s","h","o","w">>, <<"m","e">>, <<"t","e","l","l">>, <<"g","e","t">>, <<"f","i","n","d">>,
      <<"c","u","r","r","e","n","t">>, <<"l","a","t","e","s","t">>, <<"n","o","w">>, <<"t","o","d","a","y">>, <<"l","e","v","e","l">>, <<"l","e","v","e","l","s">>,
      <<"r","e","a","d","i","n","g">>, <<"v","a","l","u","e">>, <<"p","l","e","a","s","e">>, <<"c","a","n">>, <<"y","o","u">>>>

\* PMQueryWorkflow._extract_location_from_query
PM_extract_location_from_query(query) ==
    LET q == CleanQuery(query)
        method1 == PM_after_preposition(q, 1)
        method2 == PM_by_pattern(q, 1)
        words == SplitWords(q)
        pm_last == \E pm \in {<<"p","m">>, <<"p","m","2",".","5">>, <<"p","m","2","5">>, <<"a","q","i">>} :
                       Contains(words[Len(words)], pm)
    IN IF method1 # <<>> THEN method1[1]
       ELSE IF method2 # <<>> THEN method2[1]
       ELSE IF ~StartsLikeAQuestion(q) /\ Len(words) >= 2 /\ pm_last
       THEN Join(SubSeq(words, 1, Len(words) - 1), <<" ">>)
       ELSE FilterWords(q, PM_common_words)

\* \s+(tomorrow|next \d+ days?|week|days?)$
FC_timeline_words ==
    Cat(<<Spaces, Alt(<<Lit(<<"t","o","m","o","r","r","o","w">>), NextDays, Lit(<<"w","e","e","k">>), Days>>), Eos>>)

\* PMForecastWorkflow, method 1: the text after a preposition, timeline cut off
RECURSIVE FC_after_preposition(_, _)
FC_after_preposition(q, k) ==
    IF k > Len(prepositions) THEN <<>>
    ELSE LET location == ReSubEnd(FC_timeline_words, Strip(LastPart(q, prepositions[k])))
         IN IF Contains(q, prepositions[k]) /\ Len(location) > 1 THEN <<location>>
            ELSE FC_after_preposition(q, k + 1)

forecast_patterns ==
    << Cat(<<Alt(<<Lit(<<"f","o","r","e","c","a","s","t">>), Cat(<<Lit(<<"p","r","e","d","i","c","t","e">>), Opt(Lit(<<"d">>))>>),
                   Lit(<<"t","o","m","o","r","r","o","w">>), Lit(<<"f","u","t","u","r","e">>)>>),
             Spaces,
             Lits(<<<<"p","m","2",".","5">>, <<"p","m","2","5">>, <<"p","m">>, <<"a","q","i">>, <<"a","i","r"," ","q","u","a","l","i","t","y">>>>),
             Spaces, InAtForOf, OptSpaces, Rest>>),
       Cat(<<PmWords, Spaces,
             Lits(<<<<"f","o","r","e","c","a","s","t">>, <<"p","r","e","d","i","c","t","i","o","n">>, <<"t","o","m","o","r","r","o","w">>>>),
             Spaces, InAtFor, OptSpaces, Rest>>),
       Cat(<<Lits(<<<<"w","h","a","t"," ","w","i","l","l"," ","b","e">>, <<"w","h","a","t","'","s"," ","t","h","e">>>>),
             Spaces, PmWords, Spaces, InAtFor, OptSpaces, Rest>>) >>

\* \s+(tomorrow|next \d+ days?|forecast|prediction|week|days?)$
FC_trailing_words ==
    Cat(<<Spaces, Alt(<<Lit(<<"t","o","m","o","r","r","o","w">>), NextDays, Lit(<<"f","o","r","e","c","a","s","t">>),
                        Lit(<<"p","r","e","d","i","c","t","i","o","n">>), Lit(<<"w","e","e","k">>), Days>>), Eos>>)

\* PMForecastWorkflow, method 2: the text after a forecast keyword
RECURSIVE FC_by_pattern(_, _)
FC_by_pattern(q, k) ==
    IF k > Len(forecast_patterns) THEN <<>>
    ELSE LET match == ReSearch(forecast_patterns[k], q)
             location == ReSubEnd(FC_trailing_words, Strip(match.caps[1][1]))
         IN IF match.ok /\ Len(location) > 1 THEN <<location>>
            ELSE FC_by_pattern(q, k + 1)

FC_common_words ==
    PM_common_words \o <<<<"w","i","l","l">>, <<"b","e">>, <<"f","o","r","e","c","a","s","t">>, <<"p","r","e","d","i","c","t","i","o","n">>,
                         <<"t","o","m","o","r","r","o","w">>, <<"f","u","t","u","r","e">>, <<"n","e","x","t">>>>

\* PMForecastWorkflow._extract_location_from_query
FC_extract_location_from_query(query) ==
    LET q == CleanQuery(query)
        method1 == FC_after_preposition(q, 1)
        method2 == FC_by_pattern(q, 1)
        words == SplitWords(q)
        forecast_last == \E w \in {<<"f","o","r","e","c","a","s","t">>, <<"t","o","m","o","r","r","o","w">>, <<"p","r","e","d","i","c","t","i","o","n">>, <<"f","u","t","u","r","e">>} :
                             InList(w, Suffix(words, 2))
    IN IF method1 # <<>> THEN method1[1]
       ELSE IF method2 # <<>> THEN method2[1]
       ELSE IF ~StartsLikeAQuestion(q) /\ Len(words) >= 2 /\ forecast_last
       THEN Join(SubSeq(words, 1, Len(words) - 2), <<" ">>)
       ELSE FilterWords(q, FC_common_words)

(***************************************************************************)
(* LocationResolverAgent.  A row of gis.search_location_json is a record   *)
(* that holds some of the keys code, level, name, location_name,           *)
(* state_name, district_name, parent_name; the values are text.            *)
(***************************************************************************)
NoText == <<>>
Truthy(text) == text # <<>>

\* LocationResolverAgent._get_location_name
get_location_name(location) ==
    LET name_fields == <<"name", "location_name", "place_name", "area_name">>
        found == {k \in 1..Len(name_fields) : Truthy(Get(location, name_fields[k], NoText))}
    IN IF found # {}
       THEN location[name_fields[CHOOSE k \in found : \A j \in found : k <= j]]
       ELSE IF Truthy(Get(location, "code", NoText))
       THEN <<"L","o","c","a","t","i","o","n"," ">> \o location.code
       ELSE <<"U","n","k","n","o","w","n"," ","L","o","c","a","t","i","o","n">>

\* emoji_map of _format_display_name; a pictograph is one character, written
\* here by its name
emoji_of(level) ==
    CASE level = <<"s","t","a","t","e">> -> <<"(classical building)">>
      [] level = <<"d","i","s","t","r","i","c","t">> -> <<"(round pushpin)">>
      [] level \in {<<"d","i","s","t","r","i","c","t","_","h","q">>, <<"c","i","t","y">>} -> <<"(cityscape)">>
      [] level \in {<<"s","u","b","_","d","i","s","t","r","i","c","t">>, <<"s","u","b","d","i","s","t","r","i","c","t">>} -> <<"(pushpin)">>
      [] level = <<"w","a","r","d">> -> <<"(houses)">>
      [] level = <<"v","i","l","l","a","g","e">> -> <<"(house with garden)">>
      [] level = <<"t","o","w","n">> -> <<"(convenience store)">>
      [] OTHER -> <<"(round pushpin)">>

\* LocationResolverAgent._format_display_name
format_display_name(location) ==
    LET level == Lower(Get(location, "level", NoText))
        found == get_location_name(location)
        code == Get(location, "code", NoText)
        district == Get(location, "district_name", NoText)
        state_name == Get(location, "state_name", NoText)
        parent == Get(location, "parent_name", NoText)
        name == IF found = <<"U","n","k","n","o","w","n"," ","L","o","c","a","t","i","o","n">>
                THEN IF Truthy(code) THEN <<"A","r","e","a"," ","C","o","d","e"," ">> \o code ELSE <<"U","n","k","n","o","w","n"," ","A","r","e","a">>
                ELSE found
        IfSet(text) == IF Truthy(text) THEN <<text>> ELSE <<>>
        IfNew(text, parts) == IF Truthy(text) /\ ~InList(text, parts) THEN <<text>> ELSE <<>>
        other1 == <<name>> \o IfSet(parent)
        other2 == other1 \o IfNew(district, other1)
        parts ==
            CASE level = <<"w","a","r","d">> ->
                   <<name>> \o (IF Truthy(district) THEN <<<<"W","a","r","d"," ","i","n"," ">> \o district>> ELSE <<>>)
                            \o IfSet(state_name)
              [] level \in {<<"s","u","b","_","d","i","s","t","r","i","c","t">>, <<"s","u","b","d","i","s","t","r","i","c","t">>} ->
                   <<name \o <<" ","S","u","b","-","d","i","s","t","r","i","c","t">>>> \o IfSet(district) \o IfSet(state_name)
              [] level = <<"d","i","s","t","r","i","c","t">> -> <<name \o <<" ","D","i","s","t","r","i","c","t">>>> \o IfSet(state_name)
              [] level = <<"d","i","s","t","r","i","c","t","_","h","q">> ->
                   <<name \o <<" ","C","i","t","y">>, <<"D","i","s","t","r","i","c","t"," ","H","Q">>>> \o IfSet(state_name)
              [] level = <<"c","i","t","y">> ->
                   <<name \o <<" ","C","i","t","y">>>> \o IfSet(district) \o IfSet(state_name)
              [] level = <<"s","t","a","t","e">> -> <<name \o <<" ","S","t","a","t","e">>>>
              [] OTHER -> other2 \o IfNew(state_name, other2)
    IN emoji_of(level) \o <<" ">> \o Join(SelectSeq(parts, Truthy), <<" ","|"," ">>)

\* the formatted_location dict built in LocationResolverAgent.run
formatted_location(loc) ==
    [code |-> Get(loc, "code", NoText),
     level |-> Get(loc, "level", NoText),
     name |-> get_location_name(loc),
     display_name |-> format_display_name(loc),
     state |-> Get(loc, "state_name", NoText),
     district |-> Get(loc, "district_name", NoText),
     parent |-> Get(loc, "parent_name", NoText)]

\* a decision that asks the user whenever there is more than one candidate
needs_disambiguation_by_count(formatted_locations) == Len(formatted_locations) > 1

\* LocationResolverAgent.run, "Determine if disambiguation is needed"
needs_disambiguation_of(formatted_locations) ==
    LET unique_combinations ==
            { <<formatted_locations[k].name, formatted_locations[k].level>> :
                k \in 1..Len(formatted_locations) }
    IN Len(formatted_locations) > 1 /\ Cardinality(unique_combinations) # 1

\* AgentBase.handle_error
handle_error(message, context) ==
    [success |-> FALSE, error |-> message, context |-> context]

\* LocationResolverAgent.run(input_data) for one outcome db of
\* db.execute_query:
\*   raise    the query fails; message is str(e)
\*   none     no row, or a row whose locations column is empty
\*   rows     the locations column holds a list of rows
\*   row      the locations column holds one row that is not in a list
LocationResolverAgent_run(input_data, db) ==
    LET query_text == Strip(Get(input_data, "location_query", NoText))
        locations == IF db.kind = "row" THEN <<db.row>> ELSE db.rows
        formatted_locations == [k \in 1..Len(locations) |-> formatted_location(locations[k])]
    IN IF ~Truthy(query_text)
       THEN [success |-> FALSE, locations |-> <<>>,
             error |-> <<"N","o"," ","l","o","c","a","t","i","o","n"," ","q","u","e","r","y"," ","p","r","o","v","i","d","e","d">>]
       ELSE IF db.kind = "raise"
       THEN handle_error(db.message, [location_query |-> query_text])
       ELSE IF db.kind = "none" \/ (db.kind = "rows" /\ db.rows = <<>>)
       THEN [success |-> FALSE, locations |-> <<>>,
             error |-> <<"N","o"," ","l","o","c","a","t","i","o","n","s"," ","f","o","u","n","d"," ","m","a","t","c","h","i","n","g"," ","'">> \o query_text \o <<"'">>]
       ELSE [success |-> TRUE,
             locations |-> formatted_locations,
             count |-> Len(formatted_locations),
             needs_disambiguation |-> needs_disambiguation_of(formatted_locations),
             query |-> query_text]

(***************************************************************************)
(* The response texts of the workflows.  A response is a sequence of       *)
(* lines, "" is <<>>; a pictograph is one character written by its name;   *)
(* a PM2.5 value is a whole number of micrograms per cubic metre.          *)
(***************************************************************************)
DigitChars == <<"0", "1", "2", "3", "4", "5", "6", "7", "8", "9">>
\* str(n) for n >= 0
RECURSIVE IntText(_)
IntText(n) == IF n < 10 THEN <<DigitChars[n + 1]>> ELSE IntText(n \div 10) \o <<DigitChars[(n % 10) + 1]>>

\* str.upper() on one character
UpperChar(c) ==
    IF \E k \in 1..26 : LowerLetters[k] = c
    THEN UpperLetters[CHOOSE k \in 1..26 : LowerLetters[k] = c]
    ELSE c

\* level.replace('_', ' ').title()
TitleOfLevel(level) ==
    LET spaced == [k \in 1..Len(level) |-> IF level[k] = "_" THEN " " ELSE level[k]]
    IN [k \in 1..Len(spaced) |->
          IF k = 1 \/ spaced[k - 1] \notin Letters
          THEN UpperChar(spaced[k]) ELSE LowerChar(spaced[k])]

\* _get_air_quality_category (the same in both workflows); None is <<>>
get_air_quality_category(pm25_value) ==
    IF pm25_value = <<>> THEN [category |-> <<"U","n","k","n","o","w","n">>, emoji |-> <<"(question mark)">>]
    ELSE IF pm25_value[1] <= 30 THEN [category |-> <<"G","o","o","d">>, emoji |-> <<"(green circle)">>]
    ELSE IF pm25_value[1] <= 60
    THEN [category |-> <<"S","a","t","i","s","f","a","c","t","o","r","y">>, emoji |-> <<"(yellow circle)">>]
    ELSE IF pm25_value[1] <= 90 THEN [category |-> <<"M","o","d","e","r","a","t","e">>, emoji |-> <<"(orange circle)">>]
    ELSE IF pm25_value[1] <= 120 THEN [category |-> <<"P","o","o","r">>, emoji |-> <<"(red circle)">>]
    ELSE IF pm25_value[1] <= 250
    THEN [category |-> <<"V","e","r","y"," ","P","o","o","r">>, emoji |-> <<"(purple circle)">>]
    ELSE [category |-> <<"S","e","v","e","r","e">>, emoji |-> <<"(brown circle)">>]

\* f"{value:.1f}" of a whole number, "N/A" for None
PmText(pm25_value) ==
    IF pm25_value = <<>> THEN <<"N","/","A">> ELSE IntText(pm25_value[1]) \o <<".","0">>

IfLine(condition, line) == IF condition THEN <<line>> ELSE <<>>

\* PMQueryWorkflow._format_pm_response
format_pm_response(pm_data, location) ==
    LET pm_value == Get(pm_data, "pm25_value", <<>>)
        quality == get_air_quality_category(pm_value)
        location_name == Get(location, "name", <<"U","n","k","n","o","w","n">>)
        location_level == Get(location, "level", NoText)
        timestamp == Get(pm_data, "timestamp", NoText)
        station_count == Get(pm_data, "station_count", 0)
        poor == pm_value # <<>> /\ pm_value[1] > 90
    IN << quality.emoji \o <<" ","*","*","P","M","2",".","5"," ","i","n"," ">> \o location_name \o <<"*","*">>, NoText,
          <<"(bar chart)">> \o <<" ","*","*","C","u","r","r","e","n","t"," ","L","e","v","e","l",":","*","*"," ">> \o PmText(pm_value)
              \o <<" ">> \o <<"(micro)">> \o <<"g","/","m">> \o <<"(cubed)">>,
          <<"(chart rising)">> \o <<" ","*","*","A","i","r"," ","Q","u","a","l","i","t","y",":","*","*"," ">> \o quality.category >>
       \o IfLine(Truthy(location_level),
                 <<"(pin)">> \o <<" ","*","*","L","o","c","a","t","i","o","n"," ","T","y","p","e",":","*","*"," ">> \o TitleOfLevel(location_level))
       \o IfLine(Truthy(timestamp), <<"(clock)">> \o <<" ","*","*","L","a","s","t"," ","U","p","d","a","t","e","d",":","*","*"," ">> \o timestamp)
       \o IfLine(station_count # 0,
                 <<"(antenna)">> \o <<" ","*","*","D","a","t","a"," ","S","o","u","r","c","e","s",":","*","*"," ">> \o IntText(station_count)
                     \o <<" ","m","o","n","i","t","o","r","i","n","g"," ","s","t","a","t","i","o","n","s">>)
       \o (IF poor THEN <<NoText, <<"(warning)">> \o <<" ","*","*","H","e","a","l","t","h"," ","A","d","v","i","s","o","r","y",":","*","*">>>> ELSE <<>>)
       \o (IF poor /\ pm_value[1] > 250
           THEN <<<<"-"," ","A","v","o","i","d"," ","a","l","l"," ","o","u","t","d","o","o","r"," ","a","c","t","i","v","i","t","i","e","s">>, <<"-"," ","K","e","e","p"," ","w","i","n","d","o","w","s"," ","c","l","o","s","e","d">>,
                  <<"-"," ","U","s","e"," ","a","i","r"," ","p","u","r","i","f","i","e","r","s"," ","i","f"," ","a","v","a","i","l","a","b","l","e">>>>
           ELSE IF poor /\ pm_value[1] > 120
           THEN <<<<"-"," ","L","i","m","i","t"," ","p","r","o","l","o","n","g","e","d"," ","o","u","t","d","o","o","r"," ","a","c","t","i","v","i","t","i","e","s">>,
                  <<"-"," ","S","e","n","s","i","t","i","v","e"," ","g","r","o","u","p","s"," ","s","h","o","u","l","d"," ","s","t","a","y"," ","i","n","d","o","o","r","s">>>>
           ELSE IfLine(poor, <<"-"," ","S","e","n","s","i","t","i","v","e"," ","i","n","d","i","v","i","d","u","a","l","s"," ","s","h","o","u","l","d"," ","l","i","m","i","t"," ","o","u","t","d","o","o","r"," ","e","x","p","o","s","u","r","e">>))

\* PMForecastWorkflow._format_forecast_response
format_forecast_response(forecast_data, location) ==
    LET forecast_pm25 == Get(forecast_data, "forecast_pm25", <<>>)
        forecast_days == Get(forecast_data, "forecast_days", 1)
        quality == get_air_quality_category(forecast_pm25)
        location_name == Get(location, "name", <<"U","n","k","n","o","w","n">>)
        location_level == Get(location, "level", NoText)
        sensor_count == Get(forecast_data, "sensor_count", 0)
        poor == forecast_pm25 # <<>> /\ forecast_pm25[1] > 90
        period_text == IF forecast_days = 1 THEN <<"N","e","x","t"," ","2","4"," ","h","o","u","r","s">>
                       ELSE <<"N","e","x","t"," ">> \o IntText(forecast_days) \o <<" ","d","a","y","s">>
    IN << <<"(crystal ball)">> \o <<" ","*","*","P","M","2",".","5"," ","F","o","r","e","c","a","s","t"," ","f","o","r"," ">> \o location_name \o <<"*","*">>,
          NoText,
          <<"(bar chart)">> \o <<" ","*","*","P","r","e","d","i","c","t","e","d"," ","L","e","v","e","l",":","*","*"," ">> \o PmText(forecast_pm25)
              \o <<" ">> \o <<"(micro)">> \o <<"g","/","m">> \o <<"(cubed)">>,
          <<"(chart rising)">> \o <<" ","*","*","E","x","p","e","c","t","e","d"," ","A","i","r"," ","Q","u","a","l","i","t","y",":","*","*"," ">> \o quality.category,
          <<"(alarm clock)">> \o <<" ","*","*","F","o","r","e","c","a","s","t"," ","P","e","r","i","o","d",":","*","*"," ">> \o period_text >>
       \o IfLine(Truthy(location_level),
                 <<"(pin)">> \o <<" ","*","*","L","o","c","a","t","i","o","n"," ","T","y","p","e",":","*","*"," ">> \o TitleOfLevel(location_level))
       \o IfLine(sensor_count # 0,
                 <<"(antenna)">> \o <<" ","*","*","D","a","t","a"," ","S","o","u","r","c","e","s",":","*","*"," ">> \o IntText(sensor_count)
                     \o <<" ","m","o","n","i","t","o","r","i","n","g"," ","s","t","a","t","i","o","n","s">>)
       \o (IF poor
           THEN <<NoText, <<"(warning)">> \o <<" ","*","*","H","e","a","l","t","h"," ","A","d","v","i","s","o","r","y"," ","f","o","r"," ","F","o","r","e","c","a","s","t","e","d"," ","P","e","r","i","o","d",":","*","*">>>>
           ELSE <<>>)
       \o (IF poor /\ forecast_pm25[1] > 250
           THEN <<<<"-"," ","P","l","a","n"," ","t","o"," ","a","v","o","i","d"," ","a","l","l"," ","o","u","t","d","o","o","r"," ","a","c","t","i","v","i","t","i","e","s">>, <<"-"," ","K","e","e","p"," ","w","i","n","d","o","w","s"," ","c","l","o","s","e","d">>,
                  <<"-"," ","C","o","n","s","i","d","e","r"," ","u","s","i","n","g"," ","a","i","r"," ","p","u","r","i","f","i","e","r","s">>>>
           ELSE IF poor /\ forecast_pm25[1] > 120
           THEN <<<<"-"," ","P","l","a","n"," ","t","o"," ","l","i","m","i","t"," ","p","r","o","l","o","n","g","e","d"," ","o","u","t","d","o","o","r"," ","a","c","t","i","v","i","t","i","e","s">>,
                  <<"-"," ","S","e","n","s","i","t","i","v","e"," ","g","r","o","u","p","s"," ","s","h","o","u","l","d"," ","c","o","n","s","i","d","e","r"," ","s","t","a","y","i","n","g"," ","i","n","d","o","o","r","s">>>>
           ELSE IfLine(poor, <<"-"," ","M","o","n","i","t","o","r"," ","a","i","r"," ","q","u","a","l","i","t","y"," ","a","n","d"," ","l","i","m","i","t"," ","o","u","t","d","o","o","r"," ","e","x","p","o","s","u","r","e"," ","i","f"," ","n","e","e","d","e","d">>))
       \o (IF Get(forecast_data, "pm25_time_series", <<>>) # <<>>
           THEN <<NoText, <<"(chart rising)">> \o <<" ","*","*","H","o","u","r","l","y"," ","f","o","r","e","c","a","s","t"," ","c","h","a","r","t"," ","a","v","a","i","l","a","b","l","e"," ","b","e","l","o","w","*","*">>>>
           ELSE <<>>)

(***************************************************************************)
(* PMQueryWorkflow and PMForecastWorkflow.  A collaborator call has an     *)
(* outcome: [kind |-> "reply", reply |-> dict] or [kind |-> "raise"].      *)
(* An operation yields the state dict it worked on, whether it raised, and *)
(* how often it called the location agent and the domain agent.            *)
(***************************************************************************)
CrossMark == <<"(cross mark)">>
OneLine(text) == <<text>>

Returned(s, location_calls, domain_calls) ==
    [raised |-> FALSE, state |-> s,
     location_calls |-> location_calls, domain_calls |-> domain_calls]
Raised(s, location_calls, domain_calls) ==
    [raised |-> TRUE, state |-> s,
     location_calls |-> location_calls, domain_calls |-> domain_calls]

\* the state dict that PMQueryWorkflow.process_query starts from
PMQueryState(query) ==
    [user_query |-> query, location_search_term |-> NoText, locations |-> <<>>,
     needs_disambiguation |-> FALSE, selected_location |-> <<>>, pm_data |-> <<>>,
     response |-> <<>>, error |-> <<>>, waiting_for_user |-> FALSE]

\* the state dict that PMForecastWorkflow.process_query starts from
PMForecastState(query) ==
    [user_query |-> query, location_search_term |-> NoText, locations |-> <<>>,
     needs_disambiguation |-> FALSE, selected_location |-> <<>>, forecast_data |-> <<>>,
     response |-> <<>>, error |-> <<>>, waiting_for_user |-> FALSE]

\* a fetch that reports a failed or raising agent in the response only
PM_fetch_response_only(s, location_calls, pm_outcome) ==
    Returned([s EXCEPT !.response = OneLine(CrossMark)], location_calls, 1)

\* PMQueryWorkflow: "Fetch PM data" to the end of process_query; the same
\* lines end continue_with_selection
PM_fetch(s, location_calls, pm_outcome) ==
    LET loc == s.selected_location[1]
        pm_result == pm_outcome.reply
    IN IF pm_outcome.kind = "raise" THEN Raised(s, location_calls, 1)
       ELSE IF ~Get(pm_result, "success", FALSE)
       THEN Returned([s EXCEPT
                !.error = <<Get(pm_result, "error", <<"F","a","i","l","e","d"," ","t","o"," ","f","e","t","c","h"," ","P","M"," ","d","a","t","a">>)>>,
                !.response = OneLine(CrossMark \o <<" ","C","o","u","l","d"," ","n","o","t"," ","r","e","t","r","i","e","v","e"," ","P","M","2",".","5"," ","d","a","t","a"," ","f","o","r"," ">>
                    \o Get(loc, "name", <<"N","o","n","e">>)
                    \o <<"."," ","T","h","e"," ","m","o","n","i","t","o","r","i","n","g"," ","s","t","a","t","i","o","n"," ","m","i","g","h","t"," ","b","e"," ","o","f","f","l","i","n","e"," ","o","r"," ","d","a","t","a"," ","u","n","a","v","a","i","l","a","b","l","e",".">>)],
              location_calls, 1)
       ELSE Returned([s EXCEPT !.pm_data = <<pm_result>>,
                               !.response = format_pm_response(pm_result, loc)],
                     location_calls, 1)

\* PMQueryWorkflow.process_query(query), where location_term is what
\* _extract_location_from_query(query) returned
PM_process_query(query, location_term, location_outcome, pm_outcome) ==
    LET s1 == [PMQueryState(query) EXCEPT !.location_search_term = location_term]
        location_result == location_outcome.reply
        s2 == [s1 EXCEPT
                 !.locations = Get(location_result, "locations", <<>>),
                 !.needs_disambiguation = Get(location_result, "needs_disambiguation", FALSE)]
    IN IF ~Truthy(location_term)
       THEN Returned([s1 EXCEPT
                !.error = <<<<"C","o","u","l","d"," ","n","o","t"," ","i","d","e","n","t","i","f","y"," ","a"," ","l","o","c","a","t","i","o","n"," ","i","n"," ","y","o","u","r"," ","q","u","e","r","y","."," ","P","l","e","a","s","e"," ","s","p","e","c","i","f","y"," ","a"," ","l","o","c","a","t","i","o","n",".">>>>,
                !.response = OneLine(CrossMark
                    \o <<" ","I"," ","c","o","u","l","d","n","'","t"," ","i","d","e","n","t","i","f","y"," ","a"," ","l","o","c","a","t","i","o","n"," ","i","n"," ","y","o","u","r"," ","q","u","e","r","y","."," ","P","l","e","a","s","e"," ","t","r","y"," ","a","s","k","i","n","g"," ","w","i","t","h"," ","a"," ","s","p","e","c","i","f","i","c"," ","l","o","c","a","t","i","o","n",","," ","l","i","k","e"," ","'","W","h","a","t"," ","i","s"," ","P","M","2",".","5"," ","i","n"," ","D","e","l","h","i","?","'">>)],
              0, 0)
       ELSE IF location_outcome.kind = "raise" THEN Raised(s1, 1, 0)
       ELSE IF ~Get(location_result, "success", FALSE)
       THEN Returned([s1 EXCEPT
                !.error = <<Get(location_result, "error", <<"L","o","c","a","t","i","o","n"," ","s","e","a","r","c","h"," ","f","a","i","l","e","d">>)>>,
                !.response = OneLine(CrossMark \o <<" ","C","o","u","l","d"," ","n","o","t"," ","f","i","n","d"," ","l","o","c","a","t","i","o","n"," ","'">>
                    \o location_term \o <<"'","."," ","P","l","e","a","s","e"," ","c","h","e","c","k"," ","t","h","e"," ","s","p","e","l","l","i","n","g"," ","a","n","d"," ","t","r","y"," ","a","g","a","i","n",".">>)],
              1, 0)
       ELSE IF s2.needs_disambiguation /\ Len(s2.locations) > 1
       THEN Returned([s2 EXCEPT !.waiting_for_user = TRUE], 1, 0)
       ELSE IF s2.locations = <<>>
       THEN Returned([s2 EXCEPT
                !.error = <<<<"N","o"," ","l","o","c","a","t","i","o","n"," ","f","o","u","n","d">>>>,
                !.response = OneLine(CrossMark \o <<" ","L","o","c","a","t","i","o","n"," ","'">> \o location_term
                    \o <<"'"," ","n","o","t"," ","f","o","u","n","d"," ","i","n"," ","o","u","r"," ","d","a","t","a","b","a","s","e",".">>)],
              1, 0)
       ELSE PM_fetch([s2 EXCEPT !.selected_location = <<s2.locations[1]>>], 1, pm_outcome)

\* an index test that lets the index len(locations) through
PM_index_beyond_range(locations, selected_idx) ==
    selected_idx < 0 \/ selected_idx > Len(locations)

\* the index test of PMQueryWorkflow.continue_with_selection
PM_index_out_of_range(locations, selected_idx) ==
    selected_idx < 0 \/ selected_idx >= Len(locations)

\* an indexing that gives the first element whatever the index
ListItemFirst(list, i) == IF list # <<>> THEN <<list[1]>> ELSE <<>>

\* list[i] of Python: negative indices count from the end; the Optional is
\* empty when IndexError is raised
ListItem(list, i) ==
    IF 0 <= i /\ i < Len(list) THEN <<list[i + 1]>>
    ELSE IF i < 0 /\ -i <= Len(list) THEN <<list[Len(list) + i + 1]>>
    ELSE <<>>

\* PMQueryWorkflow.continue_with_selection(state, selected_idx)
PM_continue_with_selection(s, selected_idx, pm_outcome) ==
    LET locations == Get(s, "locations", <<>>)
        item == ListItem(locations, selected_idx)
    IN IF locations = <<>>
       THEN Returned([k \in DOMAIN s \cup {"error", "response"} |->
                        IF k = "error" THEN <<<<"N","o"," ","l","o","c","a","t","i","o","n","s"," ","t","o"," ","s","e","l","e","c","t"," ","f","r","o","m">>>>
                        ELSE IF k = "response"
                        THEN OneLine(CrossMark \o <<" ","E","r","r","o","r",":"," ","N","o"," ","l","o","c","a","t","i","o","n","s"," ","a","v","a","i","l","a","b","l","e"," ","f","o","r"," ","s","e","l","e","c","t","i","o","n",".">>)
                        ELSE s[k]],
                     0, 0)
       ELSE IF PM_index_out_of_range(locations, selected_idx)
       THEN Returned([s EXCEPT
                !.error = <<<<"I","n","v","a","l","i","d"," ","s","e","l","e","c","t","i","o","n"," ","i","n","d","e","x",":"," ">>
                    \o (IF selected_idx < 0 THEN <<"-">> \o IntText(-selected_idx)
                        ELSE IntText(selected_idx))>>,
                !.response = OneLine(CrossMark
                    \o <<" ","E","r","r","o","r",":"," ","I","n","v","a","l","i","d"," ","s","e","l","e","c","t","i","o","n","."," ","P","l","e","a","s","e"," ","c","h","o","o","s","e"," ","a"," ","n","u","m","b","e","r"," ","b","e","t","w","e","e","n"," ","1"," ","a","n","d"," ">>
                    \o IntText(Len(locations)) \o <<".">>)],
              0, 0)
       ELSE IF item = <<>> THEN Raised(s, 0, 0)
       ELSE PM_fetch([s EXCEPT !.selected_location = item, !.waiting_for_user = FALSE],
                     0, pm_outcome)

\* PMForecastWorkflow: "Fetch forecast data" to the end of process_query; the
\* same lines end continue_with_selection
FC_fetch(s, location_calls, forecast_outcome) ==
    LET loc == s.selected_location[1]
        forecast_result == forecast_outcome.reply
    IN IF forecast_outcome.kind = "raise" THEN Raised(s, location_calls, 1)
       ELSE IF ~Get(forecast_result, "success", FALSE)
       THEN Returned([s EXCEPT
                !.error = <<Get(forecast_result, "error", <<"F","a","i","l","e","d"," ","t","o"," ","f","e","t","c","h"," ","f","o","r","e","c","a","s","t"," ","d","a","t","a">>)>>,
                !.response = OneLine(CrossMark \o <<" ","C","o","u","l","d"," ","n","o","t"," ","r","e","t","r","i","e","v","e"," ","P","M","2",".","5"," ","f","o","r","e","c","a","s","t"," ","f","o","r"," ">>
                    \o Get(loc, "name", <<"N","o","n","e">>)
                    \o <<"."," ","T","h","e"," ","f","o","r","e","c","a","s","t","i","n","g"," ","s","e","r","v","i","c","e"," ","m","i","g","h","t"," ","b","e"," ","u","n","a","v","a","i","l","a","b","l","e",".">>)],
              location_calls, 1)
       ELSE Returned([s EXCEPT !.forecast_data = <<forecast_result>>,
                               !.response = format_forecast_response(forecast_result, loc)],
                     location_calls, 1)

\* a process_query that fetches the forecast of the first candidate although
\* it suspends for a selection
FC_process_query_fetching_early(query, location_term, location_outcome, forecast_outcome) ==
    LET s0 == PMForecastState(query)
        s1 == [s0 EXCEPT !.location_search_term = location_term]
        location_result == location_outcome.reply
        locations == Get(location_result, "locations", <<>>)
        s2 == [s1 EXCEPT !.locations = locations]
        needs_disambiguation ==
            Get(location_result, "needs_disambiguation", Len(locations) > 1)
        s3 == [s2 EXCEPT !.needs_disambiguation = needs_disambiguation]
    IN IF ~Truthy(location_term)
       THEN Returned([s0 EXCEPT !.error =
                <<<<"C","o","u","l","d"," ","n","o","t"," ","i","d","e","n","t","i","f","y"," ","a"," ","l","o","c","a","t","i","o","n"," ","i","n"," ","y","o","u","r"," ","q","u","e","r","y","."," ","P","l","e","a","s","e"," ","s","p","e","c","i","f","y"," ","a"," ","l","o","c","a","t","i","o","n"," ","f","o","r"," ","t","h","e"," ","f","o","r","e","c","a","s","t",".">>>>],
              0, 0)
       ELSE IF location_outcome.kind = "raise" THEN Raised(s1, 1, 0)
       ELSE IF ~Get(location_result, "success", FALSE)
       THEN Returned([s1 EXCEPT
                !.error = <<Get(location_result, "error", <<"L","o","c","a","t","i","o","n"," ","s","e","a","r","c","h"," ","f","a","i","l","e","d">>)>>], 1, 0)
       ELSE IF locations = <<>>
       THEN Returned([s2 EXCEPT !.error =
                <<<<"N","o"," ","l","o","c","a","t","i","o","n","s"," ","f","o","u","n","d"," ","m","a","t","c","h","i","n","g"," ","'">> \o location_term \o <<"'">>>>], 1, 0)
       ELSE IF needs_disambiguation
       THEN Returned([s3 EXCEPT !.waiting_for_user = TRUE], 1, 1)
       ELSE FC_fetch([s3 EXCEPT !.selected_location = <<locations[1]>>], 1, forecast_outcome)

\* PMForecastWorkflow.process_query(query), where location_term is what
\* _extract_location_from_query(query) returned
FC_process_query(query, location_term, location_outcome, forecast_outcome) ==
    LET s0 == PMForecastState(query)
        s1 == [s0 EXCEPT !.location_search_term = location_term]
        location_result == location_outcome.reply
        locations == Get(location_result, "locations", <<>>)
        s2 == [s1 EXCEPT !.locations = locations]
        needs_disambiguation ==
            Get(location_result, "needs_disambiguation", Len(locations) > 1)
        s3 == [s2 EXCEPT !.needs_disambiguation = needs_disambiguation]
    IN IF ~Truthy(location_term)
       THEN Returned([s0 EXCEPT !.error =
                <<<<"C","o","u","l","d"," ","n","o","t"," ","i","d","e","n","t","i","f","y"," ","a"," ","l","o","c","a","t","i","o","n"," ","i","n"," ","y","o","u","r"," ","q","u","e","r","y","."," ","P","l","e","a","s","e"," ","s","p","e","c","i","f","y"," ","a"," ","l","o","c","a","t","i","o","n"," ","f","o","r"," ","t","h","e"," ","f","o","r","e","c","a","s","t",".">>>>],
              0, 0)
       ELSE IF location_outcome.kind = "raise" THEN Raised(s1, 1, 0)
       ELSE IF ~Get(location_result, "success", FALSE)
       THEN Returned([s1 EXCEPT
                !.error = <<Get(location_result, "error", <<"L","o","c","a","t","i","o","n"," ","s","e","a","r","c","h"," ","f","a","i","l","e","d">>)>>], 1, 0)
       ELSE IF locations = <<>>
       THEN Returned([s2 EXCEPT !.error =
                <<<<"N","o"," ","l","o","c","a","t","i","o","n","s"," ","f","o","u","n","d"," ","m","a","t","c","h","i","n","g"," ","'">> \o location_term \o <<"'">>>>], 1, 0)
       ELSE IF needs_disambiguation
       THEN Returned([s3 EXCEPT !.waiting_for_user = TRUE], 1, 0)
       ELSE FC_fetch([s3 EXCEPT !.selected_location = <<locations[1]>>], 1, forecast_outcome)

\* a validation that lets the index len(locations) through
FC_invalid_selection_beyond(locations, selected_idx) ==
    locations = <<>> \/ selected_idx < 0 \/ selected_idx > Len(locations)

\* the validation of PMForecastWorkflow.continue_with_selection
FC_invalid_selection(locations, selected_idx) ==
    locations = <<>> \/ selected_idx < 0 \/ selected_idx >= Len(locations)

\* PMForecastWorkflow.continue_with_selection(state, selected_idx)
FC_continue_with_selection(s, selected_idx, forecast_outcome) ==
    LET locations == Get(s, "locations", <<>>)
        item == ListItem(Get(s, "locations", <<>>), selected_idx)
    IN IF FC_invalid_selection(locations, selected_idx)
       THEN Returned([k \in DOMAIN s \cup {"error"} |->
                        IF k = "error" THEN <<<<"I","n","v","a","l","i","d"," ","l","o","c","a","t","i","o","n"," ","s","e","l","e","c","t","i","o","n">>>> ELSE s[k]],
                     0, 0)
       ELSE IF item = <<>> THEN Raised(s, 0, 0)
       ELSE FC_fetch([s EXCEPT !.selected_location = item, !.waiting_for_user = FALSE],
                     0, forecast_outcome)
(***************************************************************************)
(* Inputs of the model.                                                    *)
(***************************************************************************)
\* queries given to the parsers
Q_WhatIsPm25Dot == <<"W","h","a","t"," ","i","s"," ","P","M","2",".","5"," ","i","n"," ","D","e","l","h","i","?">>
Q_WhatIsPm25 == <<"W","h","a","t"," ","i","s"," ","P","M","2","5"," ","i","n"," ","D","e","l","h","i","?">>
Q_IsDelhiSafe == <<"i","s"," ","d","e","l","h","i"," ","s","a","f","e">>
Q_Hello == <<"h","e","l","l","o">>
Q_ForecastThree == <<"d","e","l","h","i"," ","p","m"," ","f","o","r","e","c","a","s","t"," ","3">>
Q_ComparePm25Dot == <<"C","o","m","p","a","r","e"," ","P","M","2",".","5"," ","b","e","t","w","e","e","n"," ","D","e","l","h","i"," ","a","n","d"," ","M","u","m","b","a","i">>
Q_ComparePm25 == <<"C","o","m","p","a","r","e"," ","P","M","2","5"," ","b","e","t","w","e","e","n"," ","D","e","l","h","i"," ","a","n","d"," ","M","u","m","b","a","i">>
Q_WhichIsBetter == <<"w","h","i","c","h"," ","i","s"," ","b","e","t","t","e","r"," ","d","e","l","h","i"," ","o","r"," ","m","u","m","b","a","i">>
Q_PaddedHello == <<" "," ","H","e","l","l","o"," ","T","h","e","r","e"," ">>
Q_Blank == <<" "," ">>
Q_TrendLastWeek == <<"p","m","2","5"," ","t","r","e","n","d"," ","f","o","r"," ","d","e","l","h","i"," ","f","o","r"," ","t","h","e"," ","l","a","s","t"," ","7"," ","d","a","y","s">>
Q_ForecastTomorrow == <<"f","o","r","e","c","a","s","t"," ","p","m","2","5"," ","f","o","r"," ","d","e","l","h","i"," ","t","o","m","o","r","r","o","w">>
Q_ForecastNextDays == <<"p","r","e","d","i","c","t"," ","a","q","i"," ","f","o","r"," ","m","u","m","b","a","i"," ","n","e","x","t"," ","3"," ","d","a","y","s">>
Q_ShowHotspots == <<"s","h","o","w"," ","h","o","t","s","p","o","t","s"," ","a","r","o","u","n","d"," ","d","e","l","h","i">>
Q_HealthAdvisory == <<"h","e","a","l","t","h"," ","a","d","v","i","s","o","r","y"," ","f","o","r"," ","m","u","m","b","a","i">>
Q_Pm25InNowhere == <<"p","m","2","5"," ","i","n"," "," ","?">>
HybridQueries == <<Q_WhatIsPm25, Q_IsDelhiSafe, Q_Hello, Q_ForecastThree>>

\* replies of the inference service
ServiceReplies ==
    << [kind |-> "error", message |-> <<"F","i","n","e","-","t","u","n","e","d"," ","m","o","d","e","l"," ","A","P","I"," ","e","r","r","o","r",":"," ","5","0","0">>],
       [kind |-> "object",
        payload |-> [intent |-> "current_reading",
                     entities |-> [location |-> <<"d","e","l","h","i">>, metric |-> <<"p","m","2","5">>],
                     confidence |-> 95]],
       [kind |-> "object",
        payload |-> [intent |-> "unknown", entities |-> EmptyDict, confidence |-> 0]],
       [kind |-> "object", payload |-> [intent |-> "alert"]],
       [kind |-> "object",
        payload |-> [intent |-> "current_reading", entities |-> NotADict,
                     confidence |-> 90]],
       [kind |-> "not_object"],
       [kind |-> "text", text |-> <<"T","r","e","n","d"," ","o","f"," ","t","h","e"," ","h","i","s","t","o","r","y">>] >>

\* number of parse calls that may be in flight on one HybridQueryParser
MaxCalls == 2
Calls == 1..MaxCalls

VARIABLES
    \* HybridQueryParser
    regex_parser,       \* self.regex_parser: QueryParser.parse of each model query
    shadow_mode,        \* self.shadow_mode
    comparison_log,     \* self.comparison_log
    clock,              \* datetime.now(), counted in readings
    calls,              \* the parse calls: position, locals and result
    recorded,           \* history: every comparison ever appended, in order
    \* QueryParser.parse as a function
    query,              \* Optional: the text given to QueryParser.parse
    parsed,             \* Optional: what the parser under study produced
    service_reply,      \* Optional: what the inference service answers
    \* _is_llm_better as a function
    verdict_in,         \* Optional: the pair (regex_result, llm_result)
    verdict_out,        \* Optional: what _is_llm_better returned
    \* PMQueryWorkflow / PMForecastWorkflow and one request
    workflow,           \* which workflow class was constructed
    state,              \* Optional: the state dict of the request
    outcome,            \* how the last boundary operation ended
    trace               \* history: the last boundary operation and its collaborators

parserVars == <<regex_parser, shadow_mode, comparison_log, clock, calls, recorded>>
functionVars == <<query, parsed, service_reply, verdict_in, verdict_out>>
workflowVars == <<workflow, state, outcome, trace>>
vars == <<regex_parser, shadow_mode, comparison_log, clock, calls, recorded,
          query, parsed, service_reply, verdict_in, verdict_out,
          workflow, state, outcome, trace>>

IdleCall == [pc |-> "idle", query |-> <<>>, regex_result |-> <<>>, llm_result |-> <<>>,
             ret |-> <<>>, logged |-> 0,
             comparison |-> 0]     \* timestamp of the comparison dict the call built

HybridIdle ==
    /\ comparison_log = <<>>
    /\ clock = 0
    /\ calls = [c \in Calls |-> IdleCall]
    /\ recorded = <<>>

FunctionsIdle ==
    /\ query = <<>>
    /\ parsed = <<>>
    /\ service_reply = <<>>
    /\ verdict_in = <<>>
    /\ verdict_out = <<>>

WorkflowIdle ==
    /\ workflow = "none"
    /\ state = <<>>
    /\ outcome = "idle"
    /\ trace = <<>>

(***************************************************************************)
(* HybridQueryParser.parse as a coroutine.  It suspends only at            *)
(* `await self.llm_parser.parse(query)`; _log_comparison and               *)
(* monitor.log_error hold no await of their own, so everything from the    *)
(* external parser's return to the return of parse is one step.            *)
(***************************************************************************)
\* HybridQueryParser.__init__(shadow_mode)
HybridInit ==
    /\ regex_parser = [k \in 1..Len(HybridQueries) |-> QueryParser_parse(HybridQueries[k])]
    /\ shadow_mode \in BOOLEAN
    /\ HybridIdle
    /\ FunctionsIdle
    /\ WorkflowIdle

\* parse(query) up to its first suspension or its return
ParseCall(c, k) ==
    /\ calls[c].pc = "idle"
    /\ LET q == HybridQueries[k]
           regex_result == regex_parser[k]
           begun == [calls[c] EXCEPT !.query = <<q>>, !.regex_result = <<regex_result>>]
       IN calls' = [calls EXCEPT ![c] =
              IF regex_result.raised THEN [begun EXCEPT !.pc = "raised"]
              ELSE IF shadow_mode THEN [begun EXCEPT !.pc = "await_llm"]
              ELSE IF UseRegexResult(regex_result)
              THEN [begun EXCEPT !.pc = "returned", !.ret = <<regex_result>>]
              ELSE [begun EXCEPT !.pc = "await_llm"]]
    /\ UNCHANGED <<regex_parser, shadow_mode, comparison_log, clock, recorded>>
    /\ UNCHANGED <<functionVars, workflowVars>>

\* the external parser returns; parse records the comparison and returns
LlmParserReturns(c, reply) ==
    /\ calls[c].pc = "await_llm"
    /\ LET q == calls[c].query[1]
           regex_result == calls[c].regex_result[1]
           llm_result == FineTunedParser_parse(q, reply)
           logged == log_comparison(comparison_log, clock + 1, q, regex_result, llm_result)
           done == [calls[c] EXCEPT !.llm_result = <<llm_result>>,
                                    !.logged = IF logged.raised THEN 0 ELSE 1,
                                    !.comparison = IF logged.raised THEN 0 ELSE clock + 1]
       IN /\ comparison_log' = logged.log
          /\ clock' = clock + 1
          /\ recorded' = IF logged.raised THEN recorded
                         ELSE Append(recorded, logged.log[Len(logged.log)])
          /\ calls' = [calls EXCEPT ![c] =
                IF shadow_mode
                THEN \* the except branch logs the error; regex_result is returned
                     [done EXCEPT !.pc = "returned", !.ret = <<regex_result>>]
                ELSE IF logged.raised THEN [done EXCEPT !.pc = "raised"]
                ELSE [done EXCEPT !.pc = "returned", !.ret = <<llm_result>>]]
    /\ UNCHANGED <<regex_parser, shadow_mode>>
    /\ UNCHANGED <<functionVars, workflowVars>>

HybridNext ==
    \/ \E c \in Calls : \E k \in 1..Len(HybridQueries) : ParseCall(c, k)
    \/ \E c \in Calls : \E k \in 1..Len(ServiceReplies) :
          LlmParserReturns(c, ServiceReplies[k])

SpecHybrid == HybridInit /\ [][HybridNext]_vars


(***************************************************************************)
(* Properties of HybridQueryParser.parse.                                  *)
(***************************************************************************)
\* C2: in shadow mode parse returns before the external parser completes, so
\* no shadow-mode call is ever suspended on the external parser.
C2_ShadowNeverWaits ==
    \A c \in Calls : shadow_mode => calls[c].pc # "await_llm"

\* C3: in shadow mode every call ends by returning the Pattern Parser's
\* result; no call ends with an exception.
C3_ShadowReturnsRegexResult ==
    \A c \in Calls :
        shadow_mode =>
            /\ calls[c].pc # "raised"
            /\ calls[c].pc = "returned" => calls[c].ret = calls[c].regex_result

\* C4: in production mode a call that returns gives back the Pattern
\* Parser's result when its confidence is at least 0.85 (the external parser
\* is then not consulted), and the external parser's result otherwise.
C4_ProductionRouting ==
    \A c \in Calls :
        (~shadow_mode /\ calls[c].pc = "returned") =>
            IF calls[c].regex_result[1].confidence >= 85
            THEN calls[c].ret = calls[c].regex_result /\ calls[c].llm_result = <<>>
            ELSE calls[c].llm_result # <<>> /\ calls[c].ret = calls[c].llm_result

\* C4 happens: one production call returned on the high-confidence path and
\* another returned an external result that is unknown with confidence 0.
C4_BothPathsReturned ==
    /\ ~shadow_mode
    /\ \E c, d \in Calls :
          /\ calls[c].pc = "returned"
          /\ calls[c].regex_result[1].confidence >= 85
          /\ calls[c].ret[1].intent = "current_reading"
          /\ calls[d].pc = "returned"
          /\ calls[d].regex_result[1].confidence < 85
          /\ calls[d].ret[1].intent = "unknown"
          /\ calls[d].ret[1].confidence = 0
          /\ calls[d].ret[1] # calls[d].regex_result[1]

\* C5: in production mode every call that returns has recorded exactly one
\* comparison, on the high-confidence path too.
C5_ProductionAlwaysRecords ==
    \A c \in Calls :
        (~shadow_mode /\ calls[c].pc = "returned") => calls[c].logged = 1

(***************************************************************************)
(* QueryParser.parse as a function of the query.                           *)
(***************************************************************************)
QueryPrefixes == <<<<"W","h","a","t"," ","i","s"," ">>, <<"w","h","a","t","'","s"," ","t","h","e"," ">>, <<"S","h","o","w"," ","m","e"," ">>, <<"c","u","r","r","e","n","t"," ">>, <<>>>>
QueryMetrics == <<<<"P","M","2",".","5">>, <<"P","M","2","5">>, <<"p","m","1","0">>, <<"a","q","i">>, <<"a","i","r"," ","q","u","a","l","i","t","y">>>>
QueryPlaces == <<<<"D","e","l","h","i">>, <<"M","u","m","b","a","i">>>>
QueryEndings == <<<<>>, <<"?">>>>
\* "<prefix><metric> in <place><ending>" and some queries of other shapes
ParserQueries ==
    { QueryPrefixes[p] \o QueryMetrics[m] \o <<" ","i","n"," ">> \o QueryPlaces[l] \o QueryEndings[e] :
        p \in 1..Len(QueryPrefixes), m \in 1..Len(QueryMetrics),
        l \in 1..Len(QueryPlaces), e \in 1..Len(QueryEndings) }
    \cup {Q_IsDelhiSafe, Q_Hello, Q_ForecastThree, Q_ComparePm25Dot, Q_ComparePm25,
          Q_WhichIsBetter, Q_PaddedHello, Q_Blank, <<>>,
          Q_TrendLastWeek, Q_ForecastTomorrow, Q_ForecastNextDays, Q_ShowHotspots,
          Q_HealthAdvisory, Q_Pm25InNowhere}

ParserInit ==
    /\ query \in {<<q>> : q \in ParserQueries}
    /\ parsed = <<>>
    /\ service_reply = <<>>
    /\ verdict_in = <<>>
    /\ verdict_out = <<>>
    /\ regex_parser = <<>>
    /\ shadow_mode = TRUE
    /\ HybridIdle
    /\ WorkflowIdle

\* QueryParser.parse(query)
QueryParserParse ==
    /\ query # <<>>
    /\ parsed = <<>>
    /\ parsed' = <<QueryParser_parse(query[1])>>
    /\ UNCHANGED <<query, service_reply, verdict_in, verdict_out>>
    /\ UNCHANGED <<parserVars, workflowVars>>

ParserNext == QueryParserParse

SpecParser == ParserInit /\ [][ParserNext]_vars

\* C10: the Pattern Parser maps "What is PM2.5 in Delhi?" to current_reading
\* with entities exactly {metric: "pm25", location: "delhi"} and confidence 0.95.
C10_Pm25InDelhi ==
    (query = <<Q_WhatIsPm25Dot>> /\ parsed # <<>>) =>
        /\ ~parsed[1].raised
        /\ parsed[1].intent = "current_reading"
        /\ parsed[1].entities = [metric |-> <<"p","m","2","5">>, location |-> <<"d","e","l","h","i">>]
        /\ parsed[1].confidence = 95

\* C11: the Pattern Parser maps "Compare PM2.5 between Delhi and Mumbai" to
\* intent comparison with an entities.locations list of length at least 2.
C11_ComparePm25 ==
    (query = <<Q_ComparePm25Dot>> /\ parsed # <<>>) =>
        /\ ~parsed[1].raised
        /\ parsed[1].intent = "comparison"
        /\ "locations" \in DOMAIN parsed[1].entities
        /\ Len(parsed[1].entities["locations"]) >= 2

\* no rule of any intent matches the text
NoRuleMatches(text) == \A k \in 1..Len(patterns) : ~ReSearch(patterns[k].re, text).ok

VerdictIntents == {"unknown", "current_reading"}
VerdictEntities ==
    {EmptyDict, [location |-> <<"d","e","l","h","i">>], [location |-> <<"d","e","l","h","i">>, metric |-> <<"p","m","2","5">>]}
RegexConfidences == {0, 50, 69, 70, 80, 90, 95}
LlmConfidences == {0, 5, 60, 70, 79, 80, 81, 90, 92, 95, 100}
VerdictQuery == <<"p","m"," ","i","n"," ","d","e","l","h","i">>

VerdictInit ==
    /\ verdict_in \in
         { <<[regex |-> ParsedQuery(ri, re, rc, VerdictQuery),
              llm |-> ParsedQuery(li, le, lc, VerdictQuery)]>> :
              ri \in VerdictIntents, re \in VerdictEntities, rc \in RegexConfidences,
              li \in VerdictIntents, le \in VerdictEntities, lc \in LlmConfidences }
    /\ verdict_out = <<>>
    /\ query = <<>>
    /\ parsed = <<>>
    /\ service_reply = <<>>
    /\ regex_parser = <<>>
    /\ shadow_mode = TRUE
    /\ HybridIdle
    /\ WorkflowIdle

\* _is_llm_better(regex_result, llm_result)
IsLlmBetter ==
    /\ verdict_in # <<>>
    /\ verdict_out = <<>>
    /\ verdict_out' = <<is_llm_better(verdict_in[1].regex, verdict_in[1].llm)>>
    /\ UNCHANGED <<query, parsed, service_reply, verdict_in>>
    /\ UNCHANGED <<parserVars, workflowVars>>

VerdictNext == IsLlmBetter

SpecVerdict == VerdictInit /\ [][VerdictNext]_vars

\* C9: llm_better is true exactly when the external confidence exceeds the
\* pattern confidence plus 0.1 (as Python floats), or the pattern confidence
\* is below 0.7 and the external result has more entities, or the pattern
\* intent is unknown and the external intent is not; true for (0.5 unknown,
\* 0.95 current_reading), false for (0.9, 0.92, same intent, same count).
C9_LlmBetterIff ==
    verdict_out # <<>> =>
        LET r == verdict_in[1].regex
            l == verdict_in[1].llm
            nr == Cardinality(DOMAIN r.entities)
            nl == Cardinality(DOMAIN l.entities)
        IN /\ verdict_out[1] <=>
                \/ FloatGreaterByTenth(l.confidence, r.confidence)
                \/ r.confidence < 70 /\ nl > nr
                \/ r.intent = "unknown" /\ l.intent # "unknown"
           /\ (r.confidence = 50 /\ r.intent = "unknown"
                 /\ l.confidence = 95 /\ l.intent = "current_reading") => verdict_out[1]
           /\ (r.confidence = 90 /\ l.confidence = 92
                 /\ r.intent = l.intent /\ nr = nl) => ~verdict_out[1]

\* C9 happens: only the intents speak for the external result, and it wins.
C9_IntentAloneDecides ==
    /\ verdict_out = <<TRUE>>
    /\ verdict_in[1].regex.intent = "unknown"
    /\ verdict_in[1].llm.intent = "current_reading"
    /\ verdict_in[1].regex.confidence = 80
    /\ verdict_in[1].llm.confidence = 80
    /\ verdict_in[1].regex.entities = verdict_in[1].llm.entities

(***************************************************************************)
(* FineTunedParser.parse as a function of the query and of what the        *)
(* inference service answers.                                              *)
(***************************************************************************)
ExternalQueries ==
    {Q_WhatIsPm25, Q_IsDelhiSafe, Q_Hello, Q_ForecastThree, Q_PaddedHello, Q_ComparePm25Dot}

\* the replies of the hybrid model and some more failures
ExternalReplies ==
    ServiceReplies \o
    << [kind |-> "error", message |-> <<"C","a","n","n","o","t"," ","c","o","n","n","e","c","t"," ","t","o"," ","h","o","s","t"," ","l","o","c","a","l","h","o","s","t",":","8","0","0","0">>],
       [kind |-> "error", message |-> <<"A","t","t","e","m","p","t"," ","t","o"," ","d","e","c","o","d","e"," ","J","S","O","N"," ","w","i","t","h"," ","u","n","e","x","p","e","c","t","e","d"," ","m","i","m","e","t","y","p","e">>],
       [kind |-> "text", text |-> <<"{","i","n","t","e","n","t",":"," ","I"," ","d","o"," ","n","o","t"," ","k","n","o","w">>],
       [kind |-> "text", text |-> <<"T","h","e"," ","P","M"," ","l","e","v","e","l",","," ","D","e","l","h","i"," ","v","s"," ","M","u","m","b","a","i">>],
       [kind |-> "object", payload |-> [entities |-> NotADict]],
       [kind |-> "object",
        payload |-> [intent |-> "current_reading",
                     entities |-> [location |-> <<"d","e","l","h","i">>], confidence |-> 150]],
       [kind |-> "object",
        payload |-> [intent |-> "trend", entities |-> EmptyDict, confidence |-> 0 - 20]] >>

ExternalInit ==
    /\ query \in {<<q>> : q \in ExternalQueries}
    /\ service_reply \in {<<ExternalReplies[k]>> : k \in 1..Len(ExternalReplies)}
    /\ parsed = <<>>
    /\ verdict_in = <<>>
    /\ verdict_out = <<>>
    /\ regex_parser = <<>>
    /\ shadow_mode = TRUE
    /\ HybridIdle
    /\ WorkflowIdle

\* await FineTunedParser.parse(query), the service answering service_reply
FineTunedParserParse ==
    /\ service_reply # <<>>
    /\ parsed = <<>>
    /\ parsed' = <<FineTunedParser_parse(query[1], service_reply[1])>>
    /\ UNCHANGED <<query, service_reply, verdict_in, verdict_out>>
    /\ UNCHANGED <<parserVars, workflowVars>>

ExternalNext == FineTunedParserParse

SpecExternal == ExternalInit /\ [][ExternalNext]_vars

\* the result of the except branch: unknown, 0.0, the query and the error text
IsFallback(p, q) ==
    /\ ~p.raised
    /\ p.intent = "unknown"
    /\ p.confidence = 0
    /\ IsDict(p.entities)
    /\ {"query", "error"} \subseteq DOMAIN p.entities
    /\ p.entities["query"] = q
    /\ p.entities["error"] # <<>>

\* a payload object that lacks a field or whose entities is not a mapping
WronglyShaped(payload) ==
    \/ ~({"intent", "entities", "confidence"} \subseteq DOMAIN payload)
    \/ ~IsDict(payload.entities)

MaxRecorded == 130
\* latest start of the clock
MaxStart == 2
\* the queries whose Pattern Parser result exists (parse did not raise)
RecorderQueries == <<1, 2, 3>>

RecorderInit ==
    /\ regex_parser = [k \in 1..Len(HybridQueries) |-> QueryParser_parse(HybridQueries[k])]
    /\ shadow_mode = TRUE
    /\ comparison_log = <<>>
    /\ clock \in 0..MaxStart
    /\ calls = [c \in Calls |-> IdleCall]
    /\ recorded = <<>>
    /\ FunctionsIdle
    /\ WorkflowIdle

\* _log_comparison(query, regex_result, llm_result)
LogComparison ==
    /\ clock < MaxRecorded + MaxStart
    /\ LET k == RecorderQueries[(clock % Len(RecorderQueries)) + 1]
           reply == ServiceReplies[(clock % Len(ServiceReplies)) + 1]
           q == HybridQueries[k]
           llm_result == FineTunedParser_parse(q, reply)
           logged == log_comparison(comparison_log, clock + 1, q, regex_parser[k], llm_result)
       IN /\ comparison_log' = logged.log
          /\ recorded' = IF logged.raised THEN recorded
                         ELSE Append(recorded, logged.log[Len(logged.log)])
    /\ clock' = clock + 1
    /\ UNCHANGED <<regex_parser, shadow_mode, calls>>
    /\ UNCHANGED <<functionVars, workflowVars>>

RecorderNext == LogComparison

SpecRecorder == RecorderInit /\ [][RecorderNext]_vars

\* the last n elements of a sequence, all of it when it is shorter
LastN(s, n) == IF Len(s) <= n THEN s ELSE SubSeq(s, Len(s) - n + 1, Len(s))

\* C6: comparison_log never holds more than 100 records, and it holds the
\* most recent 100 of the recorded comparisons (all of them while there are
\* fewer), in the order in which they were recorded.
C6_LogIsLastHundred ==
    /\ Len(comparison_log) <= 100
    /\ comparison_log = LastN(recorded, 100)

\* C6 happens: more than 100 comparisons were recorded and the oldest are gone.
C6_Evicted ==
    /\ Len(recorded) > 102
    /\ Len(comparison_log) = 100
    /\ comparison_log[1] = recorded[Len(recorded) - 99]
    /\ comparison_log[1] # recorded[1]

\* C19: parse never raises, in either mode: whatever fails in the parsing
\* layer, every call ends by returning a ParsedQuery.
C19_ParseNeverRaises ==
    \A c \in Calls :
        /\ calls[c].pc # "raised"
        /\ calls[c].pc = "returned" => calls[c].ret # <<>> /\ ~calls[c].ret[1].raised

\* the calls that recorded a comparison
Recorders == {c \in Calls : calls[c].logged = 1}

\* C20: with several parse calls in flight, each comparison that a call
\* records is in the buffer exactly once, and the buffer holds the records in
\* the order in which they were appended (the last 100 of them).
C20_NoRecordLostOrReordered ==
    /\ comparison_log = LastN(recorded, MaxLog)
    /\ Len(recorded) = Cardinality(Recorders)
    /\ \A c \in Recorders :
          \E k \in 1..Len(comparison_log) :
             /\ comparison_log[k].query = calls[c].query[1]
             /\ comparison_log[k].regex_result.intent = calls[c].regex_result[1].intent
             /\ comparison_log[k].llm_result.intent = calls[c].llm_result[1].intent
             /\ comparison_log[k].llm_result.entities = calls[c].llm_result[1].entities
             /\ comparison_log[k].llm_result.confidence = calls[c].llm_result[1].confidence
    /\ \A i, j \in 1..Len(comparison_log) :
          i < j => comparison_log[i].timestamp < comparison_log[j].timestamp

\* C20 happens: two calls with different queries were in flight together (the
\* second call's record was appended first, the first call's record second)
\* and the buffer holds both records.
C20_BothInterleavedCallsRecorded ==
    /\ Recorders = {1, 2}
    /\ calls[1].query # calls[2].query
    /\ Len(comparison_log) = 2
    /\ comparison_log[1].query = calls[2].query[1]
    /\ comparison_log[2].query = calls[1].query[1]

(***************************************************************************)
(* Progress of HybridQueryParser.parse.  The event loop runs a call that   *)
(* was made up to its first await.  Nothing in parse or in                 *)
(* FineTunedParser arms a timer, and nothing makes the inference service   *)
(* answer, so the step that ends the await carries no fairness.            *)
(***************************************************************************)
SpecHybridLive ==
    /\ HybridInit
    /\ [][HybridNext]_vars
    /\ WF_vars(\E c \in Calls : \E k \in 1..Len(HybridQueries) : ParseCall(c, k))

WorkflowQueries ==
    << Q_WhatIsPm25Dot, <<"D","e","l","h","i"," ","P","M","2",".","5">>, <<"d","e","l","h","i"," ","f","o","r","e","c","a","s","t">>, <<"W","h","a","t"," ","i","s"," ","t","h","e"," ","A","Q","I","?">>,
       <<"P","M","2",".","5"," ","f","o","r","e","c","a","s","t"," ","f","o","r"," ","D","e","l","h","i"," ","t","o","m","o","r","r","o","w">> >>

\* rows of gis.search_location_json
RowDelhiState == [code |-> <<"D","L">>, level |-> <<"s","t","a","t","e">>, name |-> <<"D","e","l","h","i">>]
RowDelhiStateAgain ==
    [code |-> <<"D","L","2">>, level |-> <<"s","t","a","t","e">>, location_name |-> <<"D","e","l","h","i">>, name |-> NoText]
RowDelhiDistrict ==
    [code |-> <<"D","1">>, level |-> <<"d","i","s","t","r","i","c","t">>, name |-> <<"D","e","l","h","i">>, state_name |-> <<"D","e","l","h","i">>]
RowNewDelhi == [code |-> <<"N","D">>, level |-> <<"s","t","a","t","e">>, name |-> <<"N","e","w"," ","D","e","l","h","i">>]
RowBare == [code |-> <<"X","9">>]

\* outcomes of db.execute_query in LocationResolverAgent.run
DbOutcomes ==
    << [kind |-> "raise", message |-> <<"c","o","n","n","e","c","t","i","o","n"," ","r","e","f","u","s","e","d">>],
       [kind |-> "raise", message |-> NoText],
       [kind |-> "none"],
       [kind |-> "rows", rows |-> <<>>],
       [kind |-> "row", row |-> RowDelhiState],
       [kind |-> "rows", rows |-> <<RowDelhiDistrict>>],
       [kind |-> "rows", rows |-> <<RowDelhiState, RowDelhiStateAgain>>],
       [kind |-> "rows", rows |-> <<RowBare, RowBare, RowBare>>],
       [kind |-> "rows", rows |-> <<RowDelhiState, RowDelhiDistrict>>],
       [kind |-> "rows", rows |-> <<RowDelhiState, RowNewDelhi>>],
       [kind |-> "rows", rows |-> <<RowDelhiState, RowDelhiStateAgain, RowDelhiDistrict>>] >>

\* outcomes of a location agent that is not the LocationResolverAgent
OtherLocationOutcomes ==
    << [kind |-> "raise"],
       [kind |-> "reply", reply |-> [success |-> FALSE]],
       [kind |-> "reply", reply |-> [success |-> TRUE]],
       [kind |-> "reply",
        reply |-> [success |-> TRUE,
                   locations |-> <<formatted_location(RowDelhiState),
                                   formatted_location(RowDelhiDistrict)>>]],
       [kind |-> "reply",
        reply |-> [success |-> TRUE, needs_disambiguation |-> TRUE,
                   locations |-> <<formatted_location(RowDelhiState)>>]] >>

\* outcomes of pm_agent.run
PmOutcomes ==
    << [kind |-> "raise"],
       [kind |-> "reply", reply |-> [success |-> FALSE]],
       [kind |-> "reply", reply |-> [success |-> FALSE, error |-> NoText]],
       [kind |-> "reply",
        reply |-> [success |-> FALSE,
                   error |-> <<"N","o"," ","P","M","2",".","5"," ","d","a","t","a"," ","a","v","a","i","l","a","b","l","e"," ","f","o","r"," ","t","h","i","s"," ","l","o","c","a","t","i","o","n">>]],
       [kind |-> "reply",
        reply |-> [success |-> TRUE, pm25_value |-> <<45>>, station_count |-> 3,
                   timestamp |-> <<"2","0","2","4","-","0","1","-","0","1"," ","1","0",":","0","0">>]],
       [kind |-> "reply", reply |-> [success |-> TRUE, pm25_value |-> <<>>]],
       [kind |-> "reply", reply |-> [success |-> TRUE, pm25_value |-> <<300>>]] >>

\* outcomes of forecast_agent.run
ForecastOutcomes ==
    << [kind |-> "raise"],
       [kind |-> "reply", reply |-> [success |-> FALSE]],
       [kind |-> "reply", reply |-> [success |-> FALSE, error |-> NoText]],
       [kind |-> "reply",
        reply |-> [success |-> FALSE,
                   error |-> <<"N","o"," ","P","M","2",".","5"," ","f","o","r","e","c","a","s","t"," ","d","a","t","a"," ","a","v","a","i","l","a","b","l","e"," ","f","o","r"," ","t","h","i","s"," ","l","o","c","a","t","i","o","n">>]],
       [kind |-> "reply",
        reply |-> [success |-> TRUE, forecast_pm25 |-> <<95>>, forecast_days |-> 3,
                   sensor_count |-> 2, pm25_time_series |-> <<95, 100, 90>>]],
       [kind |-> "reply",
        reply |-> [success |-> TRUE, forecast_pm25 |-> <<>>, forecast_days |-> 1]],
       [kind |-> "reply",
        reply |-> [success |-> TRUE, forecast_pm25 |-> <<130>>, forecast_days |-> 7]] >>

\* the selection indices a caller passes are -1..MaxIndex
MaxIndex == 3
\* number of continue_with_selection calls on the state of one request
MaxContinues == 2

DomainOutcomes(w) == IF w = "pm" THEN PmOutcomes ELSE ForecastOutcomes

extract_location_from_query(w, q) ==
    IF w = "pm" THEN PM_extract_location_from_query(q) ELSE FC_extract_location_from_query(q)

process_query(w, q, location_term, location_outcome, domain_outcome) ==
    IF w = "pm" THEN PM_process_query(q, location_term, location_outcome, domain_outcome)
    ELSE FC_process_query(q, location_term, location_outcome, domain_outcome)

continue_with_selection(w, s, selected_idx, domain_outcome) ==
    IF w = "pm" THEN PM_continue_with_selection(s, selected_idx, domain_outcome)
    ELSE FC_continue_with_selection(s, selected_idx, domain_outcome)

\* the history kept of one boundary operation
Trace(op, selected_idx, pre, agent, location_outcome, domain_outcome, result) ==
    [op |-> op, selected_idx |-> selected_idx, pre |-> pre,
     continued |-> IF op = "process_query" THEN 0 ELSE trace[1].continued + 1,
     location |-> IF result.location_calls = 0 THEN <<>>
                  ELSE <<[agent |-> agent, outcome |-> location_outcome]>>,
     domain |-> IF result.domain_calls = 0 THEN <<>> ELSE <<domain_outcome>>,
     location_calls |-> result.location_calls,
     domain_calls |-> result.domain_calls,
     final |-> result.state]

WorkflowInit ==
    /\ workflow \in {"pm", "forecast"}
    /\ state = <<>>
    /\ outcome = "idle"
    /\ trace = <<>>
    /\ regex_parser = <<>>
    /\ shadow_mode = TRUE
    /\ HybridIdle
    /\ FunctionsIdle

\* the end of a boundary operation: what the caller holds, and the history
Finish(op, selected_idx, pre, agent, location_outcome, domain_outcome, result) ==
    /\ state' = IF result.raised /\ op = "process_query" THEN <<>> ELSE <<result.state>>
    /\ outcome' = IF result.raised THEN "raised" ELSE "returned"
    /\ trace' = <<Trace(op, selected_idx, pre, agent, location_outcome, domain_outcome, result)>>
    /\ UNCHANGED workflow
    /\ UNCHANGED <<parserVars, functionVars>>

\* process_query(query); the location agent is a LocationResolverAgent whose
\* database answers with db.  Each intermediate value is computed once.
ProcessQueryWithResolver(q, db, domain_outcome) ==
    /\ outcome = "idle"
    /\ \E term \in {extract_location_from_query(workflow, q)} :
       \E reply \in {LocationResolverAgent_run([location_query |-> term], db)} :
       \E result \in {process_query(workflow, q, term, [kind |-> "reply", reply |-> reply],
                                    domain_outcome)} :
          Finish("process_query", 0, <<>>, "resolver", [kind |-> "reply", reply |-> reply],
                 domain_outcome, result)

\* process_query(query) with some other location agent
ProcessQueryWithOtherAgent(q, location_outcome, domain_outcome) ==
    /\ outcome = "idle"
    /\ \E term \in {extract_location_from_query(workflow, q)} :
       \E result \in {process_query(workflow, q, term, location_outcome, domain_outcome)} :
          Finish("process_query", 0, <<>>, "other", location_outcome, domain_outcome, result)

\* continue_with_selection(state, selected_idx) on the state the caller
\* holds; the state dict is changed in place, also when the call raises
ContinueWithSelection(selected_idx, domain_outcome) ==
    /\ state # <<>>
    /\ trace[1].continued < MaxContinues
    /\ \E result \in {continue_with_selection(workflow, state[1], selected_idx,
                                              domain_outcome)} :
          Finish("continue_with_selection", selected_idx, state, "none", <<>>,
                 domain_outcome, result)

\* continue_with_selection on a state that the caller restored without its
\* candidate list
ContinueWithoutLocations(selected_idx, domain_outcome) ==
    /\ state # <<>>
    /\ trace[1].continued < MaxContinues
    /\ "locations" \in DOMAIN state[1]
    /\ \E restored \in {[k \in DOMAIN state[1] \ {"locations"} |-> state[1][k]]} :
       \E result \in {continue_with_selection(workflow, restored, selected_idx,
                                              domain_outcome)} :
          Finish("continue_with_selection", selected_idx, <<restored>>, "none", <<>>,
                 domain_outcome, result)

WorkflowNext ==
    \/ \E q \in 1..Len(WorkflowQueries), d \in 1..Len(DbOutcomes),
          o \in 1..Len(DomainOutcomes(workflow)) :
          ProcessQueryWithResolver(WorkflowQueries[q], DbOutcomes[d],
                                   DomainOutcomes(workflow)[o])
    \/ \E q \in 1..Len(WorkflowQueries), l \in 1..Len(OtherLocationOutcomes),
          o \in 1..Len(DomainOutcomes(workflow)) :
          ProcessQueryWithOtherAgent(WorkflowQueries[q], OtherLocationOutcomes[l],
                                     DomainOutcomes(workflow)[o])
    \/ \E i \in (-1)..MaxIndex, o \in 1..Len(DomainOutcomes(workflow)) :
          ContinueWithSelection(i, DomainOutcomes(workflow)[o])
    \/ \E i \in (-1)..MaxIndex, o \in 1..Len(DomainOutcomes(workflow)) :
          ContinueWithoutLocations(i, DomainOutcomes(workflow)[o])

SpecWorkflow == WorkflowInit /\ [][WorkflowNext]_vars

(***************************************************************************)
(* Properties of the workflows.                                            *)
(***************************************************************************)
\* the pm_data / forecast_data entry of a state dict
DomainData(s) == IF "pm_data" \in DOMAIN s THEN s.pm_data ELSE s.forecast_data
\* an Optional text that is neither None nor ""
NonEmpty(optional_text) == optional_text # <<>> /\ optional_text[1] # NoText
\* a state is terminal once response or error is set
Terminal(s) == s.response # <<>> \/ NonEmpty(s.error)
ReturnedBy(op) == outcome = "returned" /\ trace[1].op = op

ResolverCandidates ==
    IF /\ trace # <<>>
       /\ trace[1].op = "process_query"
       /\ trace[1].location # <<>>
       /\ trace[1].location[1].agent = "resolver"
       /\ trace[1].location[1].outcome.reply.success
    THEN trace[1].location[1].outcome.reply.locations
    ELSE <<>>
NameLevelPairs(locations) ==
    {<<locations[k].name, locations[k].level>> : k \in 1..Len(locations)}

\* C7: when the resolver finds two or more candidates with one and the same
\* (name, level) pair, process_query ends with needs_disambiguation false and
\* the first candidate selected; when two candidates differ in name or level
\* it returns with needs_disambiguation and waiting_for_user true and no
\* location selected.
C7_DisambiguationDecision ==
    Len(ResolverCandidates) >= 2 =>
        IF Cardinality(NameLevelPairs(ResolverCandidates)) = 1
        THEN /\ ~trace[1].final.needs_disambiguation
             /\ ~trace[1].final.waiting_for_user
             /\ trace[1].final.selected_location = <<ResolverCandidates[1]>>
             /\ trace[1].domain_calls = 1
        ELSE /\ outcome = "returned"
             /\ state[1].needs_disambiguation
             /\ state[1].waiting_for_user
             /\ state[1].selected_location = <<>>
             /\ trace[1].domain_calls = 0

\* C7 happens: two candidates that differ only in their code were found and
\* the first was selected without asking.
C7_EquivalentCandidates ==
    /\ Len(ResolverCandidates) = 2
    /\ ResolverCandidates[1].code # ResolverCandidates[2].code
    /\ Cardinality(NameLevelPairs(ResolverCandidates)) = 1
    /\ outcome = "returned"
    /\ state[1].selected_location = <<ResolverCandidates[1]>>
    /\ ~state[1].needs_disambiguation

\* the last operation was a continue_with_selection whose index is outside
\* the candidate list it was given, or whose candidate list is empty or missing
RejectedSelection ==
    /\ trace # <<>>
    /\ trace[1].op = "continue_with_selection"
    /\ LET locations == Get(trace[1].pre[1], "locations", <<>>)
       IN \/ locations = <<>>
          \/ trace[1].selected_idx < 0
          \/ trace[1].selected_idx >= Len(locations)

\* C8: continue_with_selection with an index below 0 or not below the number
\* of candidates, or with an empty or missing candidate list, returns a state
\* whose error is set and raises nothing, in both workflows.
C8_InvalidSelectionReported ==
    RejectedSelection =>
        /\ outcome = "returned"
        /\ NonEmpty(state[1].error)
        /\ trace[1].domain_calls = 0

\* C8 happens: a suspended state was resumed with the index len(locations).
C8_IndexOnePastTheEnd ==
    /\ RejectedSelection
    /\ trace[1].pre[1].waiting_for_user
    /\ trace[1].pre[1].error = <<>>
    /\ trace[1].selected_idx = Len(trace[1].pre[1].locations)
    /\ outcome = "returned"
    /\ NonEmpty(state[1].error)

\* the candidate list of a state dict, empty when the key is missing
Candidates(s) == Get(s, "locations", <<>>)

Suspended(s) == s.response = <<>> /\ s.error = <<>> /\ s.selected_location = <<>>

\* C15: in every returned state waiting_for_user is true if and only if the
\* workflow is suspended awaiting a selection; a state that
\* continue_with_selection ended with an error for an invalid index is not
\* waiting any more.
C15_WaitingIffSuspended ==
    outcome = "returned" =>
        /\ state[1].waiting_for_user <=> Suspended(state[1])
        /\ RejectedSelection => ~state[1].waiting_for_user

\* C16: every terminal state that a sequence of continue_with_selection calls
\* on one state dict reaches has exactly one of response and error non-empty.
C16_ExactlyOneAfterSelections ==
    (ReturnedBy("continue_with_selection") /\ Terminal(state[1])) =>
        (state[1].response # <<>>) # NonEmpty(state[1].error)

\* the last operation fetched its data
Fetched ==
    /\ trace[1].domain # <<>>
    /\ trace[1].domain[1].kind = "reply"
    /\ Get(trace[1].domain[1].reply, "success", FALSE)

\* the last operation failed: it neither fetched its data nor suspended for a
\* selection
Failed ==
    /\ trace # <<>>
    /\ ~Fetched
    /\ ~(trace[1].op = "process_query" /\ outcome = "returned" /\ state[1].waiting_for_user)

\* C17: every failure inside a boundary operation makes it return a state
\* with an error and a user-facing message; no exception leaves
\* process_query or continue_with_selection.
C17_FailuresAreReported ==
    /\ outcome # "raised"
    /\ Failed => NonEmpty(state[1].error) /\ state[1].response # <<>>

\* the last operation was a continue_with_selection with an index inside the
\* candidate list it was given
ValidSelection ==
    /\ trace # <<>>
    /\ trace[1].op = "continue_with_selection"
    /\ 0 <= trace[1].selected_idx
    /\ trace[1].selected_idx < Len(Candidates(trace[1].pre[1]))

\* C22: continue_with_selection with 0 <= index < len(candidates) selects
\* candidates[index], clears waiting_for_user, calls the domain agent exactly
\* once and the location agent not at all, and, the domain agent having
\* replied, returns a terminal state: domain data and response on success,
\* error and response on failure.
C22_ValidSelectionFetches ==
    ValidSelection =>
        LET s == trace[1].final
            candidates == trace[1].pre[1].locations
        IN /\ s.selected_location = <<candidates[trace[1].selected_idx + 1]>>
           /\ ~s.waiting_for_user
           /\ trace[1].domain_calls = 1
           /\ trace[1].location_calls = 0
           /\ trace[1].domain[1].kind = "reply" =>
                  /\ outcome = "returned"
                  /\ state[1] = s
                  /\ Terminal(s)
                  /\ IF Get(trace[1].domain[1].reply, "success", FALSE)
                     THEN DomainData(s) = <<trace[1].domain[1].reply>> /\ s.response # <<>>
                     ELSE s.error # <<>> /\ s.response # <<>>

\* C22 happens: a suspended request was resumed with the second candidate
\* and the domain agent delivered.
C22_SecondCandidateFetched ==
    /\ ValidSelection
    /\ trace[1].pre[1].waiting_for_user
    /\ trace[1].selected_idx = 1
    /\ outcome = "returned"
    /\ state[1].selected_location = <<trace[1].pre[1].locations[2]>>
    /\ state[1].selected_location # <<trace[1].pre[1].locations[1]>>
    /\ DomainData(state[1]) # <<>>

\* the reply of the location agent to the last process_query, if it replied
LocationReply ==
    IF /\ trace # <<>>
       /\ trace[1].op = "process_query"
       /\ trace[1].location # <<>>
       /\ trace[1].location[1].outcome.kind = "reply"
    THEN <<trace[1].location[1].outcome.reply>>
    ELSE <<>>

\* C23: the steps come in the order extraction, resolution, suspension or
\* retrieval: no location agent call after a failed extraction; at most one
\* domain agent call per operation, and only with a selected location that
\* is one of the candidates; no domain agent call when the resolution failed
\* or raised, found no candidate, or the workflow suspended.
C23_StepOrder ==
    trace # <<>> =>
        LET s == trace[1].final
        IN /\ trace[1].location_calls <= 1
           /\ trace[1].domain_calls <= 1
           /\ trace[1].op = "continue_with_selection" => trace[1].location_calls = 0
           /\ (trace[1].op = "process_query" /\ ~Truthy(s.location_search_term)) =>
                  trace[1].location_calls = 0 /\ trace[1].domain_calls = 0
           /\ trace[1].domain_calls = 1 =>
                  /\ s.selected_location # <<>>
                  /\ \E k \in 1..Len(Candidates(s)) :
                        s.selected_location[1] = Candidates(s)[k]
                  /\ trace[1].op = "process_query" =>
                        /\ trace[1].location_calls = 1
                        /\ LocationReply # <<>>
                        /\ Get(LocationReply[1], "success", FALSE)
                        /\ Get(LocationReply[1], "locations", <<>>) # <<>>
           /\ (trace[1].op = "process_query" /\ outcome = "returned"
                 /\ state[1].waiting_for_user) => trace[1].domain_calls = 0

\* C23 happens: the resolver found nothing for an extracted term, and the
\* operation ended without a domain agent call.
C23_ResolutionFailedNoFetch ==
    /\ LocationReply # <<>>
    /\ ~LocationReply[1].success
    /\ trace[1].location[1].agent = "resolver"
    /\ Truthy(trace[1].final.location_search_term)
    /\ trace[1].domain_calls = 0
    /\ outcome = "returned"
    /\ state[1].selected_location = <<>>

\* what a workflow did with the reply of the location agent
Decision(s) ==
    IF s.waiting_for_user THEN "suspend"
    ELSE IF s.selected_location # <<>> THEN "select"
    ELSE "fail"

\* C24: for one and the same reply of the location agent the two workflows
\* decide alike: both fail, both suspend, or both select the first candidate.
C24_SameDecision ==
    LocationReply # <<>> =>
        LET q == trace[1].final.user_query
            term == trace[1].final.location_search_term
            lo == trace[1].location[1].outcome
        IN Decision(PM_process_query(q, term, lo, PmOutcomes[2]).state)
           = Decision(FC_process_query(q, term, lo, ForecastOutcomes[2]).state)

\* C30: a rejected selection changes nothing but the error report: all
\* entries of the state other than error and response are as they were (the
\* candidate list, selected_location, needs_disambiguation, the domain data
\* and user_query among them), and the domain agent is not called.
C30_RejectedSelectionFrame ==
    RejectedSelection =>
        /\ outcome = "returned"
        /\ trace[1].domain_calls = 0
        /\ trace[1].location_calls = 0
        /\ DOMAIN trace[1].pre[1] \subseteq DOMAIN state[1]
        /\ \A k \in DOMAIN trace[1].pre[1] \ {"error", "response"} :
              state[1][k] = trace[1].pre[1][k]

\* C30 happens: a state that held domain data and a selected location was
\* resubmitted with the index len(locations) and was rejected.
C30_RejectedAfterFetch ==
    /\ RejectedSelection
    /\ trace[1].selected_idx = Len(Candidates(trace[1].pre[1]))
    /\ trace[1].selected_idx > 0
    /\ DomainData(trace[1].pre[1]) # <<>>
    /\ trace[1].pre[1].selected_location # <<>>
    /\ outcome = "returned"
    /\ DomainData(state[1]) = DomainData(trace[1].pre[1])

(***************************************************************************)
(* The confidence values of the Pattern Parser.                            *)
(***************************************************************************)
\* what _calculate_confidence asks of a result it gives 0.95 / 0.9
FullCurrentReading(p) ==
    /\ p.intent = "current_reading"
    /\ EntityTruthy(p.entities, "location")
    /\ EntityTruthy(p.entities, "metric")
FullTrendOrComparison(p) ==
    \/ p.intent = "trend" /\ {"location", "duration", "unit"} \subseteq DOMAIN p.entities
    \/ /\ p.intent = "comparison"
       /\ "locations" \in DOMAIN p.entities
       /\ Len(p.entities["locations"]) >= 2

\* C27: the Pattern Parser's confidence is 0.0, 0.8, 0.9 or 0.95: 0.0 exactly
\* for intent unknown, 0.95 only for a current_reading with location and
\* metric, 0.9 only for a trend with location, duration and unit or a
\* comparison of at least two locations, 0.8 for every other match; so the
\* production threshold 0.85 lets no forecast, hotspot or alert result through.
C27_ConfidenceValues ==
    (parsed # <<>> /\ ~parsed[1].raised) =>
        LET p == parsed[1]
        IN /\ p.confidence \in {0, 80, 90, 95}
           /\ p.confidence = 0 <=> p.intent = "unknown"
           /\ p.confidence = 95 <=> FullCurrentReading(p)
           /\ p.confidence = 90 <=> FullTrendOrComparison(p)
           /\ p.intent \in {"forecast", "hotspot", "alert"} =>
                 p.confidence = 80 /\ ~UseRegexResult(p)

\* C27 witness: forecast, hotspot and alert results below the threshold exist,
\* and so does a current_reading that only gets the base confidence
C27_ForecastBelowThreshold ==
    /\ parsed # <<>>
    /\ ~parsed[1].raised
    /\ parsed[1].intent = "forecast"
    /\ parsed[1].confidence = 80
    /\ ~UseRegexResult(parsed[1])

\* C28: every ParsedQuery of the External-Model Parser has a confidence within
\* [0.0, 1.0], whatever confidence the inference service puts in its reply.
C28_ConfidenceInUnitInterval ==
    (parsed # <<>> /\ ~parsed[1].raised) =>
        (parsed[1].confidence >= 0 /\ parsed[1].confidence <= 100)

(***************************************************************************)
(* The fallback chain of _extract_location_from_query.                     *)
(***************************************************************************)
\* method 4 of the workflow w on the query q: what stop-word and
\* metric-keyword removal leaves
LastStrategy(w, q) ==
    FilterWords(CleanQuery(q), IF w = "pm" THEN PM_common_words ELSE FC_common_words)

\* C25: the location-extraction chain reports failure (the empty string) only
\* when its last strategy, stop-word and metric-keyword removal, leaves
\* nothing: an earlier strategy with an empty candidate never ends the chain.
C25_FailureOnlyWhenLastStrategyFails ==
    (trace # <<>> /\ trace[1].op = "process_query" /\ ~Truthy(trace[1].final.location_search_term))
        => ~Truthy(LastStrategy(workflow, trace[1].final.user_query))

(***************************************************************************)
(* PMForecastAgent._extract_days_from_query as a function of the query.    *)
(***************************************************************************)
\* next (\d+) days?  /  (\d+) days?  /  over (\d+) days?  /  for (\d+) days?
days_patterns ==
    << Cat(<<Lit(<<"n","e","x","t"," ">>), DigitGroup(1), Lit(<<" ","d","a","y">>), Opt(Lit(<<"s">>))>>),
       Cat(<<DigitGroup(1), Lit(<<" ","d","a","y">>), Opt(Lit(<<"s">>))>>),
       Cat(<<Lit(<<"o","v","e","r"," ">>), DigitGroup(1), Lit(<<" ","d","a","y">>), Opt(Lit(<<"s">>))>>),
       Cat(<<Lit(<<"f","o","r"," ">>), DigitGroup(1), Lit(<<" ","d","a","y">>), Opt(Lit(<<"s">>))>>) >>

\* max(days, 1) only
ClampDaysFromBelow(days) == IF days < 1 THEN 1 ELSE days
\* min(max(days, 1), 7)
ClampDays(days) ==
    LET atLeastOne == IF days > 1 THEN days ELSE 1
    IN IF atLeastOne < 7 THEN atLeastOne ELSE 7

\* the pattern loop: the clamped number of the first pattern that matches
RECURSIVE DaysByPattern(_, _)
DaysByPattern(query_lower, k) ==
    IF k > Len(days_patterns) THEN <<>>
    ELSE LET match == ReSearch(days_patterns[k], query_lower)
         IN IF match.ok THEN <<ClampDays(ParseInt(match.caps[1][1]))>>
            ELSE DaysByPattern(query_lower, k + 1)

\* PMForecastAgent._extract_days_from_query
extract_days_from_query(q) ==
    LET query_lower == Lower(q)
        by_pattern == DaysByPattern(query_lower, 1)
    IN IF by_pattern # <<>> THEN by_pattern[1]
       ELSE IF Contains(query_lower, <<"t","o","m","o","r","r","o","w">>) THEN 1
       ELSE IF Contains(query_lower, <<"w","e","e","k">>) THEN 7
       ELSE IF Contains(query_lower, <<"3"," ","d","a","y">>) \/ Contains(query_lower, <<"t","h","r","e","e"," ","d","a","y">>) THEN 3
       ELSE 1

DaysLeads == <<<<"F","o","r","e","c","a","s","t"," ","f","o","r"," ","D","e","l","h","i"," ">>, <<"D","e","l","h","i"," ","P","M","2",".","5"," ","n","e","x","t"," ">>, <<"p","m"," ","o","v","e","r"," ">>>>
DaysNumbers == <<<<>>, <<"0">>, <<"1">>, <<"3">>, <<"7">>, <<"8">>, <<"1","2">>, <<"0","0","7">>>>
DaysUnits == <<<<>>, <<" ","d","a","y">>, <<" ","d","a","y","s">>, <<"d","a","y","s">>, <<" ","D","A","Y","S"," ","a","h","e","a","d">>, <<" ","h","o","u","r","s">>>>
DaysTails == <<<<>>, <<" ","t","o","m","o","r","r","o","w">>, <<" ","t","h","i","s"," ","W","e","e","k">>, <<" ","t","h","r","e","e"," ","d","a","y"," ","o","u","t","l","o","o","k">>>>
\* "<lead><number><unit><tail>"
DaysQueries ==
    { DaysLeads[l] \o DaysNumbers[n] \o DaysUnits[u] \o DaysTails[t] :
        l \in 1..Len(DaysLeads), n \in 1..Len(DaysNumbers),
        u \in 1..Len(DaysUnits), t \in 1..Len(DaysTails) }

DaysInit ==
    /\ query \in {<<q>> : q \in DaysQueries}
    /\ parsed = <<>>
    /\ service_reply = <<>>
    /\ verdict_in = <<>>
    /\ verdict_out = <<>>
    /\ regex_parser = <<>>
    /\ shadow_mode = TRUE
    /\ HybridIdle
    /\ WorkflowIdle

\* self._extract_days_from_query(query); parsed holds the horizon
ExtractDaysFromQuery ==
    /\ query # <<>>
    /\ parsed = <<>>
    /\ parsed' = <<extract_days_from_query(query[1])>>
    /\ UNCHANGED <<query, service_reply, verdict_in, verdict_out>>
    /\ UNCHANGED <<parserVars, workflowVars>>

DaysNext == ExtractDaysFromQuery

SpecDays == DaysInit /\ [][DaysNext]_vars

\* the numbers written in the text directly before " day": every maximal
\* run of digits that " day" follows
DayCounts(text) ==
    { ParseInt(SubSeq(text, i, j)) :
        <<i, j>> \in { p \in (1..Len(text)) \X (1..Len(text)) :
                         /\ p[1] <= p[2]
                         /\ \A k \in p[1]..p[2] : text[k] \in Digits
                         /\ p[1] = 1 \/ text[p[1] - 1] \notin Digits
                         /\ StartsWithAt(text, p[2] + 1, <<" ","d","a","y">>) } }

Within1To7(n) == IF n < 1 THEN 1 ELSE IF n > 7 THEN 7 ELSE n

\* C29: the forecast horizon extracted from a query is an integer from 1 to
\* 7: a number of days found in the query clamped into that range, else 1
\* for the keyword tomorrow, else 7 for the keyword week, and the default 1
\* for a query with no number and no keyword.
C29_HorizonWithin1To7 ==
    parsed # <<>> =>
        LET text == Lower(query[1])
            days == parsed[1]
        IN /\ days \in 1..7
           /\ DayCounts(text) # {} => \E n \in DayCounts(text) : days = Within1To7(n)
           /\ (DayCounts(text) = {} /\ Contains(text, <<"t","o","m","o","r","r","o","w">>)) => days = 1
           /\ (DayCounts(text) = {} /\ ~Contains(text, <<"t","o","m","o","r","r","o","w">>)
                  /\ Contains(text, <<"w","e","e","k">>)) => days = 7
           /\ (DayCounts(text) = {} /\ ~Contains(text, <<"t","o","m","o","r","r","o","w">>)
                  /\ ~Contains(text, <<"w","e","e","k">>) /\ ~Contains(text, <<"t","h","r","e","e"," ","d","a","y">>)) => days = 1

\* C29 witness: a query asking for more than 7 days got the horizon 7
C29_TwelveDaysClamped ==
    /\ parsed = <<7>>
    /\ DayCounts(Lower(query[1])) = {12}

(***************************************************************************)
(* A caller of HybridQueryParser.parse that hands the ParsedQuery to        *)
(* MultiAgentRouter.route_query.  A Python dict is an object: the           *)
(* comparison dict of _log_comparison holds regex_result.entities and       *)
(* llm_result.entities themselves, not copies, so a write to the entities   *)
(* of the returned ParsedQuery is a write to every holder of that dict.     *)
(***************************************************************************)
\* an entity value that is a location dict (tagged, like NoneValue)
LocationValue(location) == <<"<dict>", location.code, location.level, location.name>>
\* isinstance(value, dict) for an entity value
IsLocationValue(value) == value # <<>> /\ value[1] = "<dict>"

\* what MultiAgentRouter._resolve_location returns
RouterLocationResults ==
    << [needs_disambiguation |-> TRUE],
       [success |-> TRUE, location |-> LocationValue(RowDelhiState)],
       [success |-> FALSE] >>

\* MultiAgentRouter._needs_location_resolution
needs_location_resolution(parsed_query) ==
    /\ parsed_query.intent \in {"current_reading", "trend", "comparison", "forecast",
                                "health", "advisory"}
    /\ "location" \in DOMAIN parsed_query.entities
    /\ ~IsLocationValue(parsed_query.entities["location"])

\* which local of parse the returned ParsedQuery is
ReturnedObject(c) ==
    IF shadow_mode \/ UseRegexResult(calls[c].regex_result[1])
    THEN "regex_result" ELSE "llm_result"

\* route_query(parsed_query) on the ParsedQuery that call c returned, the
\* location agent answering location_result
RouteQuery(c, location_result) ==
    /\ calls[c].pc = "returned"
    /\ LET parsed_query == calls[c].ret[1]
           entities == [parsed_query.entities EXCEPT
                           !["location"] = Get(location_result, "location", NoneValue)]
           held == ReturnedObject(c)
       IN IF needs_location_resolution(parsed_query)
             /\ ~Get(location_result, "needs_disambiguation", FALSE)
          THEN \* parsed_query.entities['location'] = location_result.get('location')
               /\ calls' = [calls EXCEPT
                     ![c].ret = <<[parsed_query EXCEPT !.entities = entities]>>,
                     ![c][held] = <<[parsed_query EXCEPT !.entities = entities]>>]
               /\ comparison_log' =
                     [i \in 1..Len(comparison_log) |->
                        IF comparison_log[i].timestamp = calls[c].comparison
                        THEN [comparison_log[i] EXCEPT ![held].entities = entities]
                        ELSE comparison_log[i]]
          ELSE UNCHANGED <<calls, comparison_log>>
    /\ UNCHANGED <<regex_parser, shadow_mode, clock, recorded>>
    /\ UNCHANGED <<functionVars, workflowVars>>

RouterNext ==
    \/ HybridNext
    \/ \E c \in Calls : \E k \in 1..Len(RouterLocationResults) :
          RouteQuery(c, RouterLocationResults[k])

SpecRouter == HybridInit /\ [][RouterNext]_vars

\* C26: a ComparisonRecord in the in-memory buffer is never changed after it
\* was created: whatever happens later, a caller writing to the entities of
\* the returned ParsedQuery included, every buffered record equals the record
\* as it was appended.
C26_RecordsNeverChange ==
    \A i \in 1..Len(comparison_log) :
        comparison_log[i] = recorded[Len(recorded) - Len(comparison_log) + i]

(***************************************************************************)
(* The durable comparison log: what _log_comparison writes through          *)
(* comparison_handler and what ParseComparisonAnalyzer.load_comparisons     *)
(* reads back.  A JSON value is a node [t, v]; a line of the file is a      *)
(* sequence of tokens (white space is left out): the punctuation of JSON,   *)
(* the scalar nodes, the keys, and the text the formatter puts in front.    *)
(***************************************************************************)
JStr(text) == [t |-> "str", v |-> text]          \* a string, as characters
JWord(name) == [t |-> "word", v |-> name]        \* a string that is an intent name
JNum(n) == [t |-> "num", v |-> n]
JBool(b) == [t |-> "bool", v |-> b]
JNull == [t |-> "null", v |-> <<>>]
JList(items) == [t |-> "list", v |-> items]
JObj(items) == [t |-> "obj", v |-> items]        \* items: <<key, node>> in order
Tok(t) == [t |-> t, v |-> <<>>]
JKey(key) == [t |-> "key", v |-> key]
Scalars == {"str", "word", "num", "bool", "null"}

\* the keys of entities dicts, in the order the parsers insert them
EntityKeys == <<"metric", "location", "locations", "duration", "unit", "query", "error">>
KeysInOrder(keys) == SelectSeq(EntityKeys, LAMBDA k : k \in keys)

\* datetime.isoformat() and datetime.fromisoformat() of a clock reading
isoformat(reading) == IntText(reading)
fromisoformat(text) == ParseInt(text)

EntityNode(key, value) ==
    IF key = "locations" THEN JList([k \in 1..Len(value) |-> JStr(value[k])])
    ELSE IF key = "duration" THEN JNum(value)
    ELSE IF value = NoneValue THEN JNull
    ELSE JStr(value)
EntitiesNode(entities) ==
    LET keys == KeysInOrder(DOMAIN entities)
    IN JObj([k \in 1..Len(keys) |-> <<keys[k], EntityNode(keys[k], entities[keys[k]])>>])
KeyListNode(keys) ==
    LET ordered == KeysInOrder(keys) IN JList([k \in 1..Len(ordered) |-> JWord(ordered[k])])
ResultNode(result) ==
    JObj(<< <<"intent", JWord(result.intent)>>,
            <<"entities", EntitiesNode(result.entities)>>,
            <<"confidence", JNum(result.confidence)>> >>)
DifferencesNode(d) ==
    JObj((IF "intent" \in DOMAIN d
          THEN << <<"intent", JObj(<< <<"regex", JWord(d.intent.regex)>>,
                                      <<"llm", JWord(d.intent.llm)>> >>)>> >>
          ELSE <<>>)
         \o (IF "entities" \in DOMAIN d
             THEN << <<"entities",
                       JObj(<< <<"regex_only", KeyListNode(d.entities.regex_only)>>,
                               <<"llm_only", KeyListNode(d.entities.llm_only)>>,
                               <<"common", KeyListNode(d.entities.common)>> >>)>> >>
             ELSE <<>>)
         \o (IF "confidence_diff" \in DOMAIN d
             THEN << <<"confidence_diff", JNum(d.confidence_diff)>> >>
             ELSE <<>>))
\* the comparison dict as the JSON value json.dumps sees
ComparisonNode(comparison) ==
    JObj(<< <<"timestamp", JStr(isoformat(comparison.timestamp))>>,
            <<"query", JStr(comparison.query)>>,
            <<"regex_result", ResultNode(comparison.regex_result)>>,
            <<"llm_result", ResultNode(comparison.llm_result)>>,
            <<"differences", DifferencesNode(comparison.differences)>>,
            <<"llm_better", JBool(comparison.llm_better)>> >>)

WithComma(lines) == [lines EXCEPT ![Len(lines)] = Append(@, Tok(","))]

\* json.dumps(node, indent=2): the lines of the text.  An empty dict or list
\* is "{}" or "[]"; any other dict or list opens on one line, puts every
\* item on lines of its own, and closes on a last line.
RECURSIVE DumpsLines(_), DumpsItems(_, _)
DumpsItems(node, k) ==
    IF k > Len(node.v) THEN <<>>
    ELSE LET item == node.v[k]
             value_lines == DumpsLines(IF node.t = "obj" THEN item[2] ELSE item)
             first == (IF node.t = "obj" THEN <<JKey(item[1]), Tok(":")>> ELSE <<>>)
                      \o value_lines[1]
             item_lines == <<first>> \o Tail(value_lines)
         IN (IF k < Len(node.v) THEN WithComma(item_lines) ELSE item_lines)
            \o DumpsItems(node, k + 1)
DumpsLines(node) ==
    IF node.t \in Scalars THEN << <<node>> >>
    ELSE LET open == Tok(IF node.t = "obj" THEN "{" ELSE "[")
             close == Tok(IF node.t = "obj" THEN "}" ELSE "]")
         IN IF node.v = <<>> THEN << <<open, close>> >>
            ELSE << <<open>> >> \o DumpsItems(node, 1) \o << <<close>> >>

\* comparison_logger.info(json.dumps(comparison, indent=2)) through the
\* formatter '%(asctime)s - %(name)s - %(levelname)s - %(message)s': the text
\* in front of the first line of the message, the other lines as they are
LogEntry(comparison) ==
    LET message == DumpsLines(ComparisonNode(comparison))
    IN <<<<Tok("asctime - name - levelname - ")>> \o message[1]>> \o Tail(message)

\* parsing_comparisons.log after the comparisons were logged in this order
RECURSIVE LogFile(_)
LogFile(comparisons) ==
    IF comparisons = <<>> THEN <<>>
    ELSE LogFile(SubSeq(comparisons, 1, Len(comparisons) - 1))
         \o LogEntry(comparisons[Len(comparisons)])

\* json.loads: one value, then the end of the text
JSONDecodeError == [ok |-> FALSE]
RECURSIVE ParseValue(_, _), ParseItems(_, _, _, _)
ParseItems(toks, i, kind, items) ==
    LET has_key == kind = "obj"
        key_ok == ~has_key \/ (i + 1 <= Len(toks) /\ toks[i].t = "key" /\ toks[i + 1].t = ":")
        value == ParseValue(toks, IF has_key THEN i + 2 ELSE i)
        item == IF has_key THEN <<toks[i].v, value.node>> ELSE value.node
    IN IF ~key_ok THEN JSONDecodeError
       ELSE IF ~value.ok \/ value.next > Len(toks) THEN JSONDecodeError
       ELSE IF toks[value.next].t = ","
       THEN ParseItems(toks, value.next + 1, kind, Append(items, item))
       ELSE IF toks[value.next].t = (IF has_key THEN "}" ELSE "]")
       THEN [ok |-> TRUE, node |-> [t |-> kind, v |-> Append(items, item)],
             next |-> value.next + 1]
       ELSE JSONDecodeError
ParseValue(toks, i) ==
    IF i > Len(toks) THEN JSONDecodeError
    ELSE IF toks[i].t \in Scalars THEN [ok |-> TRUE, node |-> toks[i], next |-> i + 1]
    ELSE IF toks[i].t \in {"{", "["}
    THEN LET kind == IF toks[i].t = "{" THEN "obj" ELSE "list"
         IN IF i + 1 <= Len(toks) /\ toks[i + 1].t = (IF kind = "obj" THEN "}" ELSE "]")
            THEN [ok |-> TRUE, node |-> [t |-> kind, v |-> <<>>], next |-> i + 2]
            ELSE ParseItems(toks, i + 1, kind, <<>>)
    ELSE JSONDecodeError
json_loads(toks) ==
    LET value == ParseValue(toks, 1)
    IN IF value.ok /\ value.next = Len(toks) + 1 THEN value ELSE JSONDecodeError

\* line.find('{'): the first token that is a brace or a string with a brace
\* in it; 0 for -1
HasBrace(tok) == tok.t = "{" \/ (tok.t = "str" /\ \E k \in 1..Len(tok.v) : tok.v[k] = "{")
FindBrace(line) ==
    IF \E k \in 1..Len(line) : HasBrace(line[k])
    THEN CHOOSE k \in 1..Len(line) :
            HasBrace(line[k]) /\ \A j \in 1..(k - 1) : ~HasBrace(line[j])
    ELSE 0

\* dict[key] of a parsed JSON object: Optional
Member(node, key) ==
    LET found == {k \in 1..Len(node.v) : node.v[k][1] = key}
    IN IF found = {} THEN <<>> ELSE <<node.v[CHOOSE k \in found : \A j \in found : j <= k][2]>>

\* the loop of ParseComparisonAnalyzer.load_comparisons over the lines from
\* line k on; a timedelta of one day is one clock reading
RECURSIVE LoadLines(_, _, _, _)
LoadLines(lines, k, cutoff_date, comparisons) ==
    IF k > Len(lines) THEN [raised |-> FALSE, comparisons |-> comparisons]
    ELSE LET line == lines[k]
             json_start == FindBrace(line)
             comp == IF json_start = 0 \/ line[json_start].t # "{" THEN JSONDecodeError
                     ELSE json_loads(SubSeq(line, json_start, Len(line)))
             timestamp == Member(comp.node, "timestamp")
         IN IF line = <<>> \/ json_start = 0 \/ ~comp.ok       \* json.JSONDecodeError
            THEN LoadLines(lines, k + 1, cutoff_date, comparisons)
            ELSE IF timestamp = <<>> \/ timestamp[1].t # "str"   \* KeyError, TypeError
            THEN [raised |-> TRUE, comparisons |-> comparisons]
            ELSE IF fromisoformat(timestamp[1].v) >= cutoff_date
            THEN LoadLines(lines, k + 1, cutoff_date, Append(comparisons, comp.node))
            ELSE LoadLines(lines, k + 1, cutoff_date, comparisons)

\* ParseComparisonAnalyzer.load_comparisons(days_back) at the time now
load_comparisons(lines, now, days_back) == LoadLines(lines, 1, now - days_back, <<>>)

\* readings between the last write and the load, and the day counts asked for
LoadDelays == {1, 8}
DaysBack == {1, 7}

\* analyzer.load_comparisons(days_back) on the log the parser has written;
\* parsed holds what it returned
LoadComparisons(delay, days_back) ==
    /\ parsed = <<>>
    /\ \E loaded \in {load_comparisons(LogFile(recorded), clock + delay, days_back)} :
          parsed' = <<[now |-> clock + delay, days_back |-> days_back,
                       raised |-> loaded.raised, comparisons |-> loaded.comparisons]>>
    /\ UNCHANGED <<query, service_reply, verdict_in, verdict_out>>
    /\ UNCHANGED <<parserVars, workflowVars>>

\* HybridQueryParser.parse, but nothing more while the analyzer has loaded
ParserWrites ==
    /\ parsed = <<>>
    /\ HybridNext

AnalyzerNext ==
    \/ ParserWrites
    \/ \E delay \in LoadDelays : \E days_back \in DaysBack : LoadComparisons(delay, days_back)

SpecAnalyzer == HybridInit /\ [][AnalyzerNext]_vars

\* C21: every ComparisonRecord the recorder wrote to the comparison log whose
\* timestamp lies within the day-count cutoff is returned by
\* load_comparisons with the same fields.
C21_WrittenRecordsAreLoaded ==
    parsed # <<>> =>
        /\ ~parsed[1].raised
        /\ \A i \in 1..Len(recorded) :
              recorded[i].timestamp >= parsed[1].now - parsed[1].days_back
                 => \E j \in 1..Len(parsed[1].comparisons) :
                       parsed[1].comparisons[j] = ComparisonNode(recorded[i])
=============================================================================
